---------------------------- MODULE Spec2Model ----------------------------
(***************************************************************************)
(* GLIDE v3.1 physics engine (src/glide_v3_1): DynamicTether, MotorSystem, *)
(* ElectrodynamicTether, GravityField, EnergyTracker, GLIDEIntegrator and  *)
(* load_config.                                                            *)
(*                                                                         *)
(* Numbers.  The program computes in IEEE doubles.  The model computes in  *)
(* exact rationals <<n, d>> (d > 0, lowest terms), i.e. the real-number    *)
(* semantics of the same expressions; statements "within tolerance" are    *)
(* therefore checked exactly.  Vectors are pairs <<x, y>> of rationals.    *)
(* Node i of the tether is index i of a function on 0..N, as in the code.  *)
(***************************************************************************)
EXTENDS Integers, Sequences, FiniteSets, TLC

VARIABLES tether, motor, edt, gravity, energy, integ, run, harness, load

vars == <<tether, motor, edt, gravity, energy, integ, run, harness, load>>

---------------------------------------------------------------------------
(* Rational arithmetic                                                     *)

RECURSIVE GCD(_, _)
GCD(a, b) == IF b = 0 THEN a ELSE GCD(b, a % b)

IAbs(n) == IF n < 0 THEN -n ELSE n

\* n/d in lowest terms with a positive denominator
Q(n, d) ==
    LET g == GCD(IAbs(n), IAbs(d))
        s == IF d < 0 THEN -1 ELSE 1
    IN  <<(s * n) \div g, (s * d) \div g>>

I(n) == <<n, 1>>
Zero == <<0, 1>>
One == <<1, 1>>
Half == <<1, 2>>

RNeg(a) == <<-a[1], a[2]>>
RAbs(a) == <<IAbs(a[1]), a[2]>>

RAdd(a, b) ==
    LET g == GCD(a[2], b[2])
    IN  Q(a[1] * (b[2] \div g) + b[1] * (a[2] \div g), a[2] * (b[2] \div g))

RSub(a, b) == RAdd(a, RNeg(b))

RMul(a, b) ==
    LET g1 == GCD(IAbs(a[1]), b[2])
        g2 == GCD(IAbs(b[1]), a[2])
    IN  IF a[1] = 0 \/ b[1] = 0 THEN Zero
        ELSE <<(a[1] \div g1) * (b[1] \div g2), (a[2] \div g2) * (b[2] \div g1)>>

RInv(a) == IF a[1] < 0 THEN <<-a[2], -a[1]>> ELSE <<a[2], a[1]>>

RDiv(a, b) == RMul(a, RInv(b))

RSign(a) == IF a[1] > 0 THEN 1 ELSE IF a[1] < 0 THEN -1 ELSE 0

\* the sign of n1/d1 - n2/d2 (d1, d2 > 0), by comparing integer parts and
\* then the reciprocals of the fractional parts: no product is formed
RECURSIVE CmpFrac(_, _, _, _)
CmpFrac(n1, d1, n2, d2) ==
    LET f1 == n1 \div d1
        f2 == n2 \div d2
        r1 == n1 % d1
        r2 == n2 % d2
    IN  IF f1 < f2 THEN -1
        ELSE IF f1 > f2 THEN 1
        ELSE IF r1 = 0 THEN (IF r2 = 0 THEN 0 ELSE -1)
        ELSE IF r2 = 0 THEN 1
        ELSE CmpFrac(d2, r2, d1, r1)

RCmp(a, b) == CmpFrac(a[1], a[2], b[1], b[2])
RLt(a, b) == RCmp(a, b) < 0
RLe(a, b) == RCmp(a, b) <= 0
RMax(a, b) == IF RLt(a, b) THEN b ELSE a
RMin(a, b) == IF RLt(b, a) THEN b ELSE a

\* np.clip(x, lo, hi)
RClip(x, lo, hi) == RMin(RMax(x, lo), hi)

\* x < 1/(a*b) for x >= 0 and integers a, b >= 1, computed without forming a*b
LtRecip(x, a, b) ==
    LET q1 == (x[2] + a - 1) \div a
        q2 == (q1 + b - 1) \div b
    IN  x[1] < q2

\* floor of the square root of a natural number below 2^31
RECURSIVE ISqrtIn(_, _, _)
ISqrtIn(n, lo, hi) ==
    IF lo >= hi THEN lo
    ELSE LET mid == (lo + hi + 1) \div 2
         IN  IF mid * mid <= n THEN ISqrtIn(n, mid, hi) ELSE ISqrtIn(n, lo, mid - 1)

ISqrt(n) == ISqrtIn(n, 0, 46340)

\* np.sqrt / np.linalg.norm: exact on the square of a rational, which is
\* what every configuration of this model produces (tethers collinear
\* along (0,-1) or (3,-4)/5); ExactRoots below checks it.
RSqrt(a) == <<ISqrt(a[1]), ISqrt(a[2])>>

IsSquare(a) == ISqrt(a[1]) * ISqrt(a[1]) = a[1] /\ ISqrt(a[2]) * ISqrt(a[2]) = a[2]

\* floor and ceiling of a rational
RFloor(a) == a[1] \div a[2]
RCeil(a) == -((-a[1]) \div a[2])

---------------------------------------------------------------------------
(* Planar vectors                                                          *)

ZeroV == <<Zero, Zero>>
VAdd(u, v) == <<RAdd(u[1], v[1]), RAdd(u[2], v[2])>>
VSub(u, v) == <<RSub(u[1], v[1]), RSub(u[2], v[2])>>
VScale(s, v) == <<RMul(s, v[1]), RMul(s, v[2])>>
Dot(u, v) == RAdd(RMul(u[1], v[1]), RMul(u[2], v[2]))
Norm2(v) == Dot(v, v)

\* np.linalg.norm(v) = sqrt(x^2 + y^2).  With v = (g/d) * (a, b) for
\* integers a, b with no common factor, this is (g/d) * sqrt(a^2 + b^2);
\* forming it so keeps the squares small.
Norm(v) ==
    LET d == (v[1][2] \div GCD(v[1][2], v[2][2])) * v[2][2]
        x == v[1][1] * (d \div v[1][2])
        y == v[2][1] * (d \div v[2][2])
        g == GCD(IAbs(x), IAbs(y))
    IN  IF g = 0 THEN Zero
        ELSE RMul(Q(g, d), RSqrt(I((x \div g) * (x \div g) + (y \div g) * (y \div g))))

\* whether Norm(v) is exact
ExactNorm(v) ==
    LET d == (v[1][2] \div GCD(v[1][2], v[2][2])) * v[2][2]
        x == v[1][1] * (d \div v[1][2])
        y == v[2][1] * (d \div v[2][2])
        g == GCD(IAbs(x), IAbs(y))
    IN  g = 0 \/ IsSquare(I((x \div g) * (x \div g) + (y \div g) * (y \div g)))

---------------------------------------------------------------------------
(* core/tether.py: DynamicTether                                           *)

Million == 1000 * 1000

\* L < 1e-12, the degenerate-segment floor of compute_internal_forces and
\* enforce_constraints
BelowSegFloor(L) == LtRecip(L, Million, Million)

\* np.exp(-x) for x >= 0 is irrational; the model uses its (1,1) Pade
\* approximant, which is 1 at x = 0 and lies strictly between 0 and 1 for
\* 0 < x < 2
ExpNeg(x) == RDiv(RSub(I(2), x), RAdd(I(2), x))

\* DynamicTether.__init__.  EA stands for E * pi * (d/2)^2, the product the
\* constructor forms before dividing by the segment length.
NewTether(N, L0, EA, rho_l, damping_ratio, vel_decay) ==
    LET seg == RDiv(L0, I(N))
        k == RDiv(EA, seg)
        m == RMul(rho_l, seg)
        pos == [i \in 0..N |-> <<Zero, RNeg(RMul(I(i), seg))>>]
    IN  [N |-> N, L0 |-> L0, segment_length |-> seg, k |-> k, rho_l |-> rho_l,
         m_segment |-> m,
         c |-> RMul(RMul(I(2), RSqrt(RMul(k, m))), damping_ratio),
         vel_decay_per_s |-> RMax(Zero, vel_decay),
         positions |-> pos,
         velocities |-> [i \in 0..N |-> ZeroV],
         forces |-> [i \in 0..N |-> ZeroV],
         pos_prev |-> pos]

anchor_update(t, anchor_pos, anchor_vel) ==
    [t EXCEPT !.positions[0] = anchor_pos, !.velocities[0] = anchor_vel]

\* Fs of segment i (nodes i, i+1): zero below the floor
SegmentFs(t, i) ==
    LET r == VSub(t.positions[i + 1], t.positions[i])
        L == Norm(r)
    IN  IF BelowSegFloor(L) THEN ZeroV
        ELSE LET u == VScale(RInv(L), r)
                 stretch == RSub(L, t.segment_length)
                 rel_vel == Dot(VSub(t.velocities[i + 1], t.velocities[i]), u)
             IN  VSub(VScale(RNeg(RMul(t.k, stretch)), u),
                      VScale(RMul(t.c, rel_vel), u))

\* the buffer with the reaction left out: only F[i] += Fs(i)
InternalForces_NoReaction(t) ==
    [j \in 0..t.N |-> IF j < t.N THEN SegmentFs(t, j) ELSE ZeroV]

\* the buffer F after the loop: F[i] += Fs(i), F[i+1] -= Fs(i)
InternalForces(t) ==
    [j \in 0..t.N |->
        VSub(IF j < t.N THEN SegmentFs(t, j) ELSE ZeroV,
             IF j > 0 THEN SegmentFs(t, j - 1) ELSE ZeroV)]

compute_internal_forces(t) == [t EXCEPT !.forces = InternalForces(t)]

add_external_forces(t, F_ext) ==
    [t EXCEPT !.forces = [j \in 0..t.N |-> VAdd(t.forces[j], F_ext[j])]]

integrate(t, dt) ==
    IF RLe(dt, Zero) THEN t
    ELSE LET vel1 == [j \in 0..t.N |->
                        IF j = 0 THEN t.velocities[0]
                        ELSE VAdd(t.velocities[j],
                                  VScale(dt, VScale(RInv(t.m_segment), t.forces[j])))]
             pos1 == [j \in 0..t.N |->
                        IF j = 0 THEN t.positions[0]
                        ELSE VAdd(t.positions[j], VScale(dt, vel1[j]))]
             vel2 == IF RLt(Zero, t.vel_decay_per_s)
                     THEN [j \in 0..t.N |->
                             IF j = 0 THEN vel1[0]
                             ELSE VScale(ExpNeg(RMul(t.vel_decay_per_s, dt)), vel1[j])]
                     ELSE vel1
         IN  [t EXCEPT !.pos_prev = t.positions, !.positions = pos1,
                       !.velocities = vel2]

\* ConstrainSegment without the anchor case: the correction of segment 0 is
\* split between the anchor and node 1 like that of any other segment
ConstrainSegment_SplitAtAnchor(pos, seg, i) ==
    LET delta == VSub(pos[i + 1], pos[i])
        dist == Norm(delta)
    IN  IF BelowSegFloor(dist) THEN pos
        ELSE LET corr == VScale(RMul(Half, RDiv(RSub(dist, seg), dist)), delta)
             IN  [pos EXCEPT ![i] = VAdd(pos[i], corr),
                             ![i + 1] = VSub(pos[i + 1], corr)]

\* one segment of one constraint pass
ConstrainSegment(pos, seg, i) ==
    LET delta == VSub(pos[i + 1], pos[i])
        dist == Norm(delta)
    IN  IF BelowSegFloor(dist) THEN pos
        ELSE LET diff == RDiv(RSub(dist, seg), dist)
             IN  IF i = 0
                 THEN [pos EXCEPT ![1] = VSub(pos[1], VScale(diff, delta))]
                 ELSE LET corr == VScale(RMul(Half, diff), delta)
                      IN  [pos EXCEPT ![i] = VAdd(pos[i], corr),
                                      ![i + 1] = VSub(pos[i + 1], corr)]

\* segments i, i+1, ..., N-1 in order
RECURSIVE ConstrainFrom(_, _, _, _)
ConstrainFrom(pos, seg, i, N) ==
    IF i >= N THEN pos
    ELSE LET p == ConstrainSegment(pos, seg, i)
         IN  IF DOMAIN p = 0..N THEN ConstrainFrom(p, seg, i + 1, N) ELSE pos

\* one pass over all segments, then the anchor is put back
ConstraintPass(t, pos) ==
    [ConstrainFrom(pos, t.segment_length, 0, t.N) EXCEPT ![0] = t.pos_prev[0]]

RECURSIVE ConstraintPasses(_, _, _)
ConstraintPasses(t, pos, n) ==
    IF n = 0 THEN pos
    ELSE LET p == ConstraintPass(t, pos)
         IN  IF DOMAIN p = 0..t.N THEN ConstraintPasses(t, p, n - 1) ELSE pos

\* enforce_constraints without line 129: the velocities integrate left are kept
enforce_constraints_KeepVelocity(t, dt, iterations) ==
    IF RLe(dt, Zero) \/ iterations <= 0 THEN t
    ELSE [t EXCEPT !.positions = ConstraintPasses(t, t.positions, iterations)]

enforce_constraints(t, dt, iterations) ==
    IF RLe(dt, Zero) \/ iterations <= 0 THEN t
    ELSE LET pos == ConstraintPasses(t, t.positions, iterations)
         IN  [t EXCEPT !.positions = pos,
                       !.velocities = [j \in 0..t.N |->
                            IF j = 0 THEN t.velocities[0]
                            ELSE VScale(RInv(dt), VSub(pos[j], t.pos_prev[j]))]]

get_payload_state(t) == <<t.positions[t.N], t.velocities[t.N]>>

SegLength(t, i) == Norm(VSub(t.positions[i + 1], t.positions[i]))

get_tension_profile(t) ==
    [i \in 0..(t.N - 1) |->
        RMul(t.k, RMax(Zero, RSub(SegLength(t, i), t.segment_length)))]

RECURSIVE RSum(_, _, _)
\* f[lo] + ... + f[hi]
RSum(f, lo, hi) == IF lo > hi THEN Zero ELSE RAdd(f[lo], RSum(f, lo + 1, hi))

KineticEnergy(t) ==
    RMul(RMul(Half, t.m_segment),
         RSum([j \in 1..t.N |-> Norm2(t.velocities[j])], 1, t.N))

ElasticEnergy(t) ==
    RSum([i \in 0..(t.N - 1) |->
            LET stretch == RSub(SegLength(t, i), t.segment_length)
            IN  RMul(RMul(Half, t.k), RMul(stretch, stretch))], 0, t.N - 1)

total_energy_mech(t) == RAdd(KineticEnergy(t), ElasticEnergy(t))

---------------------------------------------------------------------------
(* The tether sub-step of GLIDEIntegrator.step (integrator.py 115-124)     *)
(* driven on its own: anchor held where it is, no external force field.    *)
(* harness holds what a test keeps beside the tether: the energy and the   *)
(* positions at release, the sub-step size and the iteration count.        *)

MaxN == 2
MaxIter == 3
MaxSubsteps == 3
\* coordinates are followed while numerator and denominator stay this small
MaxMagnitude == 4096

SmallQ(a) == IAbs(a[1]) <= MaxMagnitude /\ a[2] <= MaxMagnitude
SmallV(v) == SmallQ(v[1]) /\ SmallQ(v[2])
Representable(t) ==
    \A j \in 0..t.N : SmallV(t.positions[j]) /\ SmallV(t.velocities[j])

Idle == "idle"

\* segment lengths at release, as multiples of the rest length
StretchFactors == {One, <<6, 5>>, <<3, 2>>}
\* unit directions of the released tether
Directions == {<<Zero, <<-1, 1>>>>, <<<<3, 5>>, <<-4, 5>>>>}
\* E*A [N], linear density [kg/m]: EA * rho_l is a perfect square
Materials == {<<I(40), <<1, 10>>>>, <<I(90), <<2, 5>>>>}
DampingRatios == {Zero, <<1, 4>>}
SubstepDts == {Half, One}
\* numerical_vel_decay_per_s [1/s]
VelDecays == {Zero, One}

\* node positions of a tether released along dir with segment i stretched
\* by factor f[i]
RECURSIVE Released(_, _, _, _)
Released(t, dir, f, i) ==
    IF i = 0 THEN ZeroV
    ELSE VAdd(Released(t, dir, f, i - 1),
              VScale(RMul(f[i - 1], t.segment_length), dir))

ReleasedTether(t, dir, f) ==
    LET pos == [i \in 0..t.N |-> Released(t, dir, f, i)]
    IN  [t EXCEPT !.positions = pos, !.pos_prev = pos]

InitSubstep ==
    /\ \E N \in 1..MaxN, mat \in Materials, zeta \in DampingRatios,
          dir \in Directions, r \in VelDecays :
         \E f \in [0..(N - 1) -> StretchFactors] :
            tether = ReleasedTether(
                        NewTether(N, I(10), mat[1], mat[2], zeta, r), dir, f)
    /\ \E dt \in SubstepDts, it \in 1..MaxIter :
         harness = [E0 |-> total_energy_mech(tether), x0 |-> tether.positions,
                    dt |-> dt, iterations |-> it, n |-> 0,
                    last |-> "release", prev |-> tether]
    /\ motor = Idle /\ edt = Idle /\ gravity = Idle /\ energy = Idle
    /\ integ = Idle /\ run = Idle /\ load = Idle

\* compute_internal_forces -> integrate(dt) -> enforce_constraints(dt, it)
SubStepOf(t, dt, it) ==
    enforce_constraints(integrate(compute_internal_forces(t), dt), dt, it)

TetherSubStep ==
    /\ harness.n < MaxSubsteps
    /\ Representable(tether)
    /\ tether' = SubStepOf(tether, harness.dt, harness.iterations)
    /\ harness' = [harness EXCEPT !.n = @ + 1, !.last = "substep", !.prev = tether]
    /\ UNCHANGED <<motor, edt, gravity, energy, integ, run, load>>

NextSubstep == TetherSubStep

SpecSubstep == InitSubstep /\ [][NextSubstep]_vars

\* every norm the tether takes is the exact root of its argument
ExactRoots ==
    \A i \in 0..(tether.N - 1) :
        ExactNorm(VSub(tether.positions[i + 1], tether.positions[i]))

\* the released payload of C1: one segment, at rest, 1.2 * L0 from an anchor
\* at the origin
IsOverstretchRelease ==
    /\ tether.N = 1
    /\ harness.x0[0] = ZeroV
    /\ Norm(harness.x0[1]) = RMul(<<6, 5>>, tether.L0)
    /\ harness.iterations >= 1

\* C1: a one-segment tether released at rest at 1.2 * L0 from a fixed anchor,
\* with no external force, never holds more mechanical energy after a
\* sub-step (forces, integrate, constraints with at least one iteration)
\* than it held at release.
C1_EnergyBoundedByInitial ==
    (IsOverstretchRelease /\ harness.n >= 1)
        => RLe(total_energy_mech(tether), harness.E0)

---------------------------------------------------------------------------
(* DynamicTether's methods called one at a time, in any order, on a        *)
(* released tether.  harness.prev is the tether before the last call,      *)
(* harness.last the method called, harness.iterations its iteration count. *)

MaxCalls == 3

\* unit vector from the anchor to the tip at release
Axis == VScale(RInv(Norm(VSub(harness.x0[tether.N], harness.x0[0]))),
               VSub(harness.x0[tether.N], harness.x0[0]))

\* anchor kinematics handed to anchor_update: <<position, velocity>> along
\* the tether's axis: at the release position and receding from the tip,
\* behind the release position, and 6 m along the tether (where node 1 of
\* a two-segment tether stretched by 6/5 is released)
AnchorInputs == {<<Zero, <<-1, 2>>>>, <<I(-1), Zero>>, <<I(6), Zero>>}
\* stretch of each segment at release
ApiStretchFactors == {One, <<6, 5>>}
\* E*A [N], linear density [kg/m]
ApiMaterial == <<I(40), <<1, 10>>>>
\* iteration counts handed to enforce_constraints
ApiIterations == {0, 1, MaxIter}
\* external force per node, along the axis
ForceInputs == {I(-2)}
\* time steps handed to integrate and enforce_constraints
DtInputs == {Zero, harness.dt}

InitTetherApi ==
    /\ \E N \in 1..MaxN, zeta \in DampingRatios, dir \in Directions :
         \E f \in [0..(N - 1) -> ApiStretchFactors] :
            tether = ReleasedTether(
                        NewTether(N, I(10), ApiMaterial[1], ApiMaterial[2],
                                  zeta, Zero), dir, f)
    /\ \E dt \in SubstepDts :
         harness = [E0 |-> total_energy_mech(tether), x0 |-> tether.positions,
                    dt |-> dt, iterations |-> 0, n |-> 0,
                    last |-> "release", prev |-> tether]
    /\ motor = Idle /\ edt = Idle /\ gravity = Idle /\ energy = Idle
    /\ integ = Idle /\ run = Idle /\ load = Idle

CanCall == harness.n < MaxCalls /\ Representable(tether)

Called(op, it) ==
    /\ harness' = [harness EXCEPT !.n = @ + 1, !.last = op, !.iterations = it,
                                  !.prev = tether]
    /\ UNCHANGED <<motor, edt, gravity, energy, integ, run, load>>

AnchorUpdate ==
    /\ CanCall
    /\ \E a \in AnchorInputs :
        /\ tether' = anchor_update(tether, VScale(a[1], Axis), VScale(a[2], Axis))
        /\ Called("anchor_update", 0)

ComputeInternalForces ==
    /\ CanCall
    /\ tether' = compute_internal_forces(tether)
    /\ Called("compute_internal_forces", 0)

AddExternalForces ==
    /\ CanCall
    /\ \E f \in ForceInputs :
        /\ tether' = add_external_forces(tether, [j \in 0..tether.N |-> VScale(f, Axis)])
        /\ Called("add_external_forces", 0)

Integrate ==
    /\ CanCall
    /\ \E dt \in DtInputs :
        /\ tether' = integrate(tether, dt)
        /\ Called("integrate", 0)

EnforceConstraints ==
    /\ CanCall
    /\ \E dt \in DtInputs, it \in ApiIterations :
        /\ tether' = enforce_constraints(tether, dt, it)
        /\ Called(IF RLt(Zero, dt) THEN "enforce_constraints" ELSE "enforce_constraints_dt0", it)

NextTetherApi ==
    \/ AnchorUpdate
    \/ ComputeInternalForces
    \/ AddExternalForces
    \/ Integrate
    \/ EnforceConstraints

SpecTetherApi == InitTetherApi /\ [][NextTetherApi]_vars

RECURSIVE RPow(_, _)
RPow(a, n) == IF n = 0 THEN One ELSE RMul(a, RPow(a, n - 1))

\* |current length - rest length| of segment i
LengthError(t, i) == RAbs(RSub(SegLength(t, i), t.segment_length))
TotalLengthError(t) ==
    RSum([i \in 0..(t.N - 1) |-> LengthError(t, i)], 0, t.N - 1)
Stretched(t) ==
    \A i \in 0..(t.N - 1) : RLe(t.segment_length, SegLength(t, i))

\* the configuration the last sub-step handed to enforce_constraints
ConstraintInput ==
    integrate(compute_internal_forces(harness.prev), harness.dt)

\* per-pass contraction of the length error of an N-segment chain
PassRate(N) == RSub(One, <<1, N * N>>)

\* C3: enforce_constraints, called after integrate on a stretched
\* configuration with dt > 0 and it >= 1 iterations, leaves every segment's
\* length error at most (1 - 1/N^2)^it times the total length error it was
\* handed (so a sufficient iteration count brings it under any tolerance),
\* and for N = 1 leaves the segment exactly at rest length.
C3_ConstraintConvergence ==
    (harness.last = "substep" /\ Stretched(ConstraintInput))
        => /\ \A i \in 0..(tether.N - 1) :
                RLe(LengthError(tether, i),
                    RMul(RPow(PassRate(tether.N), harness.iterations),
                         TotalLengthError(ConstraintInput)))
           /\ tether.N = 1 => SegLength(tether, 0) = tether.segment_length

\* a two-segment chain handed over stretched, corrected by two or more
\* passes, with a residual error left on some segment
C3_Witness ==
    /\ harness.last = "substep"
    /\ tether.N = 2
    /\ harness.iterations >= 2
    /\ Stretched(ConstraintInput)
    /\ \E i \in 0..1 : RLt(Zero, LengthError(tether, i))

---------------------------------------------------------------------------
(* core/motor.py: MotorSystem                                              *)

NewMotor(R_spool, J_m, tau_max, b_m, eta) ==
    [R_spool |-> R_spool, J_m |-> J_m, tau_max |-> tau_max, b_m |-> b_m,
     eta |-> eta,
     omega |-> Zero, torque |-> Zero, energy_used |-> Zero,
     anchor_length |-> Zero, P_mech |-> Zero, P_elec |-> Zero]

\* P_elec with the efficiency applied the wrong way round
ElectricalPower_Swapped(P_mech, eta) ==
    IF RLe(Zero, P_mech) THEN RMul(P_mech, eta) ELSE RDiv(P_mech, eta)

\* motoring draws P_mech / eta, braking returns P_mech * eta
ElectricalPower(P_mech, eta) ==
    IF RLe(Zero, P_mech) THEN RDiv(P_mech, eta) ELSE RMul(P_mech, eta)

\* MotorSystem.update: the motor after the call
\* update without the clips of lines 45-46 on the acceleration and the speed
motor_update_Unlimited(m, dt, tension, omega_cmd) ==
    LET tau_load == RMul(tension, m.R_spool)
        tau_cmd == RClip(RMul(I(2), RSub(omega_cmd, m.omega)),
                         RNeg(m.tau_max), m.tau_max)
        domega == RDiv(RSub(RSub(tau_cmd, tau_load), RMul(m.b_m, m.omega)),
                       m.J_m)
        omega == RAdd(m.omega, RMul(domega, dt))
        P_mech == RMul(tau_cmd, omega)
    IN  [m EXCEPT !.omega = omega, !.torque = tau_cmd,
                  !.anchor_length = RAdd(m.anchor_length,
                                         RMul(RMul(omega, m.R_spool), dt)),
                  !.P_mech = P_mech,
                  !.P_elec = ElectricalPower(P_mech, m.eta),
                  !.energy_used = RAdd(m.energy_used,
                                       RMul(ElectricalPower(P_mech, m.eta), dt))]

motor_update(m, dt, tension, omega_cmd) ==
    LET tau_load == RMul(tension, m.R_spool)
        kp == I(2)
        tau_cmd == RClip(RMul(kp, RSub(omega_cmd, m.omega)),
                         RNeg(m.tau_max), m.tau_max)
        domega == RClip(RDiv(RSub(RSub(tau_cmd, tau_load), RMul(m.b_m, m.omega)),
                             m.J_m),
                        I(-100), I(100))
        omega == RClip(RAdd(m.omega, RMul(domega, dt)), I(-50), I(50))
        v_anchor == RMul(omega, m.R_spool)
        P_mech == RMul(tau_cmd, omega)
        P_elec == ElectricalPower(P_mech, m.eta)
    IN  [m EXCEPT !.omega = omega, !.torque = tau_cmd,
                  !.anchor_length = RAdd(m.anchor_length, RMul(v_anchor, dt)),
                  !.P_mech = P_mech, !.P_elec = P_elec,
                  !.energy_used = RAdd(m.energy_used, RMul(P_elec, dt))]

\* the value update returns: v_anchor of the new omega
motor_v_anchor(m) == RMul(m.omega, m.R_spool)

---------------------------------------------------------------------------
(* MotorSystem.update called repeatedly with arbitrary inputs.             *)
(* harness.prev is the motor before the last call, harness.dt its dt.      *)

MaxMotorUpdates == 3

\* <<R_spool, J_m, tau_max, b_m>>: spool radius and torque limits of
\* config.py (default 15, engineering preset 8) with inertia and damping
\* in halves
MotorParams == {<<<<1, 4>>, Half, I(15), Half>>,
                <<<<1, 4>>, Half, I(8), Zero>>,
                <<Half, I(2), I(4), Zero>>}
Efficiencies == {<<87, 100>>, Half}
MotorDts == {Half, One}
Tensions == {Zero, I(4), I(400)}
OmegaCmds == {I(-8), Zero, I(8)}

SmallMotor(m) ==
    /\ SmallQ(m.omega) /\ SmallQ(m.P_elec)
    /\ SmallQ(m.energy_used) /\ SmallQ(m.anchor_length)

InitMotor ==
    /\ \E p \in MotorParams, eta \in Efficiencies :
         motor = NewMotor(p[1], p[2], p[3], p[4], eta)
    /\ harness = [n |-> 0, last |-> "new", prev |-> motor, dt |-> Zero,
                  tension |-> Zero, omega_cmd |-> Zero]
    /\ tether = Idle /\ edt = Idle /\ gravity = Idle /\ energy = Idle
    /\ integ = Idle /\ run = Idle /\ load = Idle

MotorUpdate ==
    /\ harness.n < MaxMotorUpdates
    /\ SmallMotor(motor)
    /\ \E dt \in MotorDts, T \in Tensions, w \in OmegaCmds :
         /\ motor' = motor_update(motor, dt, T, w)
         /\ harness' = [n |-> harness.n + 1, last |-> "update", prev |-> motor,
                        dt |-> dt, tension |-> T, omega_cmd |-> w]
    /\ UNCHANGED <<tether, edt, gravity, energy, integ, run, load>>

NextMotor == MotorUpdate

SpecMotor == InitMotor /\ [][NextMotor]_vars

\* C7: after every update with 0 < eta < 1, positive mechanical power is
\* drawn as P_mech / eta, which exceeds it; negative mechanical power is
\* returned as P_mech * eta, negative and smaller in magnitude; and
\* energy_used has grown by exactly P_elec * dt.
C7_EfficiencyAsymmetry ==
    (harness.last = "update" /\ RLt(Zero, motor.eta) /\ RLt(motor.eta, One))
        => /\ RLt(Zero, motor.P_mech)
                => /\ RMul(motor.P_elec, motor.eta) = motor.P_mech
                   /\ RLt(motor.P_mech, motor.P_elec)
           /\ RLt(motor.P_mech, Zero)
                => /\ motor.P_elec = RMul(motor.P_mech, motor.eta)
                   /\ RLt(motor.P_elec, Zero)
                   /\ RLt(RAbs(motor.P_elec), RAbs(motor.P_mech))
           /\ motor.energy_used =
                RAdd(harness.prev.energy_used, RMul(motor.P_elec, harness.dt))

\* a braking update (P_mech < 0) following a motoring one (P_mech > 0)
C7_Witness ==
    /\ harness.last = "update"
    /\ RLt(motor.P_mech, Zero)
    /\ RLt(Zero, harness.prev.P_mech)
    /\ motor.energy_used # Zero

---------------------------------------------------------------------------
(* Text: a Python str is a sequence of one-character strings               *)

UpperCase == <<"A", "B", "C", "D", "E", "F", "G", "H", "I", "J", "K", "L", "M",
               "N", "O", "P", "Q", "R", "S", "T", "U", "V", "W", "X", "Y", "Z">>
LowerCase == <<"a", "b", "c", "d", "e", "f", "g", "h", "i", "j", "k", "l", "m",
               "n", "o", "p", "q", "r", "s", "t", "u", "v", "w", "x", "y", "z">>
Whitespace == {" ", "\t", "\n", "\r"}

LowerChar(ch) ==
    IF \E k \in 1..26 : UpperCase[k] = ch
    THEN LowerCase[CHOOSE k \in 1..26 : UpperCase[k] = ch]
    ELSE ch

\* str.lower()
Lower(str) == [k \in 1..Len(str) |-> LowerChar(str[k])]

\* str.strip(): leading and trailing whitespace removed
RECURSIVE LStrip(_)
LStrip(str) ==
    IF str # <<>> /\ Head(str) \in Whitespace THEN LStrip(Tail(str)) ELSE str

RECURSIVE RStrip(_)
RStrip(str) ==
    IF str # <<>> /\ str[Len(str)] \in Whitespace
    THEN RStrip(SubSeq(str, 1, Len(str) - 1))
    ELSE str

Strip(str) == RStrip(LStrip(str))

\* str(x).lower().strip()
NormalizeName(str) == Strip(Lower(str))

S_off == <<"o", "f", "f">>
S_boost == <<"b", "o", "o", "s", "t">>
S_drag == <<"d", "r", "a", "g">>
S_local == <<"l", "o", "c", "a", "l">>
S_orbital == <<"o", "r", "b", "i", "t", "a", "l">>

---------------------------------------------------------------------------
(* core/edt.py: ElectrodynamicTether                                       *)

\* the outcome of a call that raises ValueError
ValueError == [raised |-> "ValueError"]

\* B_vec after __init__: a pair becomes (0, 0, last), a triple is kept,
\* any other length raises
NormalizeBVec(B_vec) ==
    IF Len(B_vec) = 2 THEN <<Zero, Zero, B_vec[Len(B_vec)]>>
    ELSE IF Len(B_vec) # 3 THEN ValueError
    ELSE B_vec

\* ElectrodynamicTether.__init__: the object, or ValueError
NewEDT(L, B_vec, R_tether, I_max, mode) ==
    IF NormalizeBVec(B_vec) = ValueError THEN ValueError
    ELSE [L |-> L, B_vec |-> NormalizeBVec(B_vec), R_tether |-> R_tether,
          I_max |-> I_max, mode |-> NormalizeName(mode),
          I |-> Zero, F |-> ZeroV, P_loss |-> Zero, P_orbit |-> Zero,
          P_net |-> Zero]

\* 1e-9: the floor on the tether vector's length and on the speed
EdtFloor == <<1, 1000 * Million>>

\* the sign chosen for the force with the two modes' choices exchanged
ForceSign_ModesSwapped(mode, P_candidate, speed) ==
    IF RLt(EdtFloor, speed)
    THEN IF mode = S_boost THEN (IF RLe(Zero, P_candidate) THEN I(-1) ELSE One)
         ELSE (IF RLe(Zero, P_candidate) THEN One ELSE I(-1))
    ELSE IF mode = S_boost THEN I(-1) ELSE One

\* the sign chosen for the force
ForceSign(mode, P_candidate, speed) ==
    IF RLt(EdtFloor, speed)
    THEN IF mode = S_boost THEN (IF RLe(Zero, P_candidate) THEN One ELSE I(-1))
         ELSE (IF RLe(Zero, P_candidate) THEN I(-1) ELSE One)
    ELSE IF mode = S_boost THEN One ELSE I(-1)

\* boost: P_loss + max(0, P_orbit); drag: P_loss + min(0, P_orbit)
NetPower(mode, P_loss, P_orbit) ==
    IF mode = S_boost THEN RAdd(P_loss, RMax(Zero, P_orbit))
    ELSE RAdd(P_loss, RMin(Zero, P_orbit))

\* ElectrodynamicTether.update: the object after the call (the call returns
\* its field F)
edt_update(e, node_pos, payload_pos, velocity_vec, current_cmd) ==
    IF e.mode = S_off
    THEN [e EXCEPT !.I = Zero, !.F = ZeroV, !.P_loss = Zero, !.P_orbit = Zero,
                   !.P_net = Zero]
    ELSE LET cur == RMul(RClip(current_cmd, I(-1), One), e.I_max)
             L_vec2 == VSub(payload_pos, node_pos)
             L_norm == Norm(L_vec2)
             P_loss == RMul(RMul(cur, cur), e.R_tether)
         IN  IF RLt(L_norm, EdtFloor)
             THEN [e EXCEPT !.I = cur, !.F = ZeroV, !.P_loss = P_loss,
                            !.P_orbit = Zero, !.P_net = P_loss]
             ELSE LET L_hat == VScale(RInv(L_norm), L_vec2)
                      Bz == e.B_vec[3]
                      F_mag == RMul(RMul(RAbs(cur), L_norm), RAbs(Bz))
                      perp_L == <<RNeg(L_hat[2]), L_hat[1]>>
                      F_candidate == VScale(F_mag, perp_L)
                      P_candidate == Dot(F_candidate, velocity_vec)
                      sgn == ForceSign(e.mode, P_candidate, Norm(velocity_vec))
                      F == VScale(sgn, F_candidate)
                      P_orbit == Dot(F, velocity_vec)
                  IN  [e EXCEPT !.I = cur, !.F = F, !.P_loss = P_loss,
                                !.P_orbit = P_orbit,
                                !.P_net = NetPower(e.mode, P_loss, P_orbit)]

get_power(e) == e.P_net

---------------------------------------------------------------------------
(* ElectrodynamicTether.update called with arbitrary inputs.               *)
(* harness holds the arguments of the last call.                           *)

EdtModes == {S_off, S_boost, S_drag}
EdtFields == {<<Zero, Zero, One>>, <<Zero, I(-2)>>, <<One, One, Zero>>}
EdtResistances == {One, Half}
EdtMaxCurrents == {One, <<5, 4>>}
\* payload positions (the near end is the origin), velocities, commands
EdtPayloads == {ZeroV, <<Zero, I(-10)>>, <<I(3), I(-4)>>}
EdtVelocities == {ZeroV, <<One, Zero>>, <<I(-2), One>>, <<Zero, I(3)>>,
                  <<EdtFloor, Zero>>, <<RNeg(EdtFloor), Zero>>}
EdtCommands == {I(-2), <<-4, 5>>, Zero, <<4, 5>>, I(2)}

InitEDT ==
    /\ \E B \in EdtFields, R \in EdtResistances, Im \in EdtMaxCurrents,
          mode \in EdtModes :
         edt = NewEDT(I(100), B, R, Im, mode)
    /\ harness = [last |-> "new", payload_pos |-> ZeroV, velocity |-> ZeroV,
                  current_cmd |-> Zero]
    /\ tether = Idle /\ motor = Idle /\ gravity = Idle /\ energy = Idle
    /\ integ = Idle /\ run = Idle /\ load = Idle

EdtUpdate ==
    /\ \E p \in EdtPayloads, v \in EdtVelocities, cmd \in EdtCommands :
         /\ edt' = edt_update(edt, ZeroV, p, v, cmd)
         /\ harness' = [last |-> "update", payload_pos |-> p, velocity |-> v,
                        current_cmd |-> cmd]
    /\ UNCHANGED <<tether, motor, gravity, energy, integ, run, load>>

NextEDT == EdtUpdate

SpecEDT == InitEDT /\ [][NextEDT]_vars

EdtAllZero ==
    /\ edt.I = Zero /\ edt.F = ZeroV
    /\ edt.P_loss = Zero /\ edt.P_orbit = Zero /\ edt.P_net = Zero

\* C6 as claimed: after every update, in boost mode P_orbit >= 0 and
\* P_net = P_loss + P_orbit >= P_loss; in drag mode P_orbit <= 0 and
\* P_net = P_loss + P_orbit <= P_loss, with P_net < 0 exactly when
\* |P_orbit| > P_loss; in off mode force, current and powers are zero.
C6_PowerSignAsClaimed ==
    harness.last = "update" =>
        /\ edt.mode = S_boost =>
              /\ RLe(Zero, edt.P_orbit)
              /\ RSub(edt.P_net, edt.P_loss) = edt.P_orbit
              /\ RLe(edt.P_loss, edt.P_net)
        /\ edt.mode = S_drag =>
              /\ RLe(edt.P_orbit, Zero)
              /\ RSub(edt.P_net, edt.P_loss) = edt.P_orbit
              /\ RLe(edt.P_net, edt.P_loss)
              /\ RLt(edt.P_net, Zero) <=> RLt(edt.P_loss, RAbs(edt.P_orbit))
        /\ edt.mode = S_off => EdtAllZero

\* C6 (amended): after every update, in boost mode
\* P_net = P_loss + max(0, P_orbit) >= P_loss, and P_orbit >= 0 whenever the
\* speed exceeds 1e-9; in drag mode P_net = P_loss + min(0, P_orbit) <=
\* P_loss, P_orbit <= 0 whenever the speed exceeds 1e-9, and P_net < 0
\* exactly when P_orbit < 0 and |P_orbit| > P_loss; in off mode force,
\* current and powers are zero.
C6_PowerSign ==
    harness.last = "update" =>
        /\ edt.mode = S_boost =>
              /\ RSub(edt.P_net, edt.P_loss) = RMax(Zero, edt.P_orbit)
              /\ RLe(edt.P_loss, edt.P_net)
              /\ RLt(EdtFloor, Norm(harness.velocity)) => RLe(Zero, edt.P_orbit)
        /\ edt.mode = S_drag =>
              /\ RSub(edt.P_net, edt.P_loss) = RMin(Zero, edt.P_orbit)
              /\ RLe(edt.P_net, edt.P_loss)
              /\ RLt(EdtFloor, Norm(harness.velocity)) => RLe(edt.P_orbit, Zero)
              /\ RLt(edt.P_net, Zero)
                    <=> (RLt(edt.P_orbit, Zero) /\ RLt(edt.P_loss, RAbs(edt.P_orbit)))
        /\ edt.mode = S_off => EdtAllZero

\* drag mode harvesting more than the resistive loss
C6_Witness ==
    /\ harness.last = "update"
    /\ edt.mode = S_drag
    /\ RLt(Zero, edt.P_loss)
    /\ RLt(edt.P_net, Zero)

---------------------------------------------------------------------------
(* GravityField (core/gravity.py)                                          *)

\* the value standing for gravity=None
NoGravity == [mu |-> Zero, g0 |-> Zero, R_earth |-> Zero,
              mode |-> <<"N", "o", "n", "e">>]

NewGravity(mu, g0, R_earth, mode) ==
    [mu |-> mu, g0 |-> g0, R_earth |-> R_earth, mode |-> NormalizeName(mode)]

get_acceleration(g, pos) ==
    IF g.mode = S_local THEN <<Zero, RNeg(g.g0)>>
    ELSE LET r2 == Dot(pos, pos)
         IN  IF RLt(r2, One) THEN ZeroV
             ELSE LET r == Norm(pos)
                  IN  VScale(RDiv(RNeg(g.mu), RMul(r, RMul(r, r))), pos)

get_potential(g, pos) ==
    IF g.mode = S_local THEN RMul(g.g0, pos[2])
    ELSE LET r2 == Dot(pos, pos)
         IN  IF RLt(r2, One) THEN Zero
             ELSE RDiv(RNeg(g.mu), Norm(pos))

---------------------------------------------------------------------------
(* EnergyTracker (core/energy.py)                                          *)

NeverPrinted == RNeg(I(1000 * Million))

NewEnergy(battery_capacity_J, log_interval_s) ==
    [time |-> <<>>, E_kin |-> <<>>, E_elastic |-> <<>>, E_grav |-> <<>>,
     E_batt |-> <<>>, E_total |-> <<>>, SoC |-> <<>>,
     E_batt_capacity |-> battery_capacity_J,
     E_batt_now |-> battery_capacity_J,
     log_interval_s |-> RMax(Zero, log_interval_s),
     t_last_print |-> NeverPrinted]

\* gravitational energy of the nodes relative to the anchor
GravEnergy(t, g) ==
    IF g = NoGravity THEN Zero
    ELSE IF g.mode = S_local
    THEN RSum([i \in 1..t.N |->
                 RMul(RMul(t.m_segment, g.g0),
                      RSub(t.positions[i][2], t.positions[0][2]))], 1, t.N)
    ELSE LET U_ref == get_potential(g, t.positions[0])
         IN  RSum([i \in 1..t.N |->
                     RMul(t.m_segment,
                          RSub(get_potential(g, t.positions[i]), U_ref))], 1, t.N)

\* the battery energy taken as computed, without the clip
BatteryClip_Unclamped(E, capacity) == E

\* np.clip(E, 0, capacity) = minimum(maximum(E, 0), capacity)
BatteryClip(E, capacity) == RMin(RMax(E, Zero), capacity)

\* the battery change over dt with the power counted as charge
BatteryDelta_Charging(P_total, dt) == RMul(P_total, dt)

BatteryDelta(P_total, dt) == RMul(RNeg(P_total), dt)

StateOfCharge(E_batt_now, capacity) ==
    IF RLt(Zero, capacity) THEN RDiv(E_batt_now, capacity) ELSE Zero

\* lines 70-79: the sample is appended and the print timer advanced
\* the sample written over the last row instead of appended after it
AppendSample_Overwriting(en, t_next, kinetic, elastic, grav, batt) ==
    IF en.time = <<>>
    THEN [en EXCEPT !.E_batt_now = batt,
                    !.time = <<t_next>>, !.E_kin = <<kinetic>>,
                    !.E_elastic = <<elastic>>, !.E_grav = <<grav>>,
                    !.E_batt = <<batt>>,
                    !.E_total = <<RAdd(RAdd(RAdd(kinetic, elastic), grav), batt)>>,
                    !.SoC = <<StateOfCharge(batt, en.E_batt_capacity)>>]
    ELSE [en EXCEPT !.E_batt_now = batt,
                    !.time = Append(@, t_next),
                    !.E_kin = Append(@, kinetic),
                    !.E_elastic = Append(@, elastic),
                    !.E_grav = Append(@, grav),
                    !.E_batt = Append([@ EXCEPT ![Len(@)] = batt], batt),
                    !.E_total = Append(@, RAdd(RAdd(RAdd(kinetic, elastic), grav), batt)),
                    !.SoC = Append(@, StateOfCharge(batt, en.E_batt_capacity))]

AppendSample(en, t_next, kinetic, elastic, grav, batt) ==
    [en EXCEPT !.E_batt_now = batt,
               !.time = Append(@, t_next),
               !.E_kin = Append(@, kinetic),
               !.E_elastic = Append(@, elastic),
               !.E_grav = Append(@, grav),
               !.E_batt = Append(@, batt),
               !.E_total = Append(@, RAdd(RAdd(RAdd(kinetic, elastic), grav), batt)),
               !.SoC = Append(@, StateOfCharge(batt, en.E_batt_capacity)),
               !.t_last_print =
                    IF /\ RLt(Zero, en.log_interval_s)
                       /\ RLe(RAdd(en.t_last_print, en.log_interval_s), t_next)
                    THEN t_next ELSE @]

SampleKinetic(t) ==
    RMul(RMul(Half, t.m_segment),
         RSum([j \in 1..t.N |-> Norm2(t.velocities[j])], 1, t.N))

SampleElastic(t) ==
    RSum([i \in 0..(t.N - 1) |->
            RMul(RMul(Half, t.k),
                 RMul(RSub(SegLength(t, i), t.segment_length),
                      RSub(SegLength(t, i), t.segment_length)))], 0, t.N - 1)

energy_update(en, dt, t, m, e, g) ==
    AppendSample(en,
                 IF en.time = <<>> THEN Zero ELSE RAdd(en.time[Len(en.time)], dt),
                 SampleKinetic(t), SampleElastic(t), GravEnergy(t, g),
                 BatteryClip(RAdd(en.E_batt_now,
                                  BatteryDelta(RAdd(m.P_elec, get_power(e)), dt)),
                             en.E_batt_capacity))

EmptySummary == [x \in {} |-> Zero]

\* the summary taken from the oldest sample instead of the latest
summary_FirstSample(en) ==
    IF en.time = <<>> THEN EmptySummary
    ELSE [E_kin |-> en.E_kin[1], E_elastic |-> en.E_elastic[1],
          E_grav |-> en.E_grav[1], E_batt |-> en.E_batt[1],
          E_total |-> en.E_total[1], SoC |-> en.SoC[1]]

summary(en) ==
    IF en.time = <<>> THEN EmptySummary
    ELSE LET last == Len(en.time)
         IN  [E_kin |-> en.E_kin[last], E_elastic |-> en.E_elastic[last],
              E_grav |-> en.E_grav[last], E_batt |-> en.E_batt[last],
              E_total |-> en.E_total[last], SoC |-> en.SoC[last]]

---------------------------------------------------------------------------
(* EnergyTracker.update called sample after sample, the way                *)
(* GLIDEIntegrator.step calls it, with the motor's P_elec and the EDT's    *)
(* P_net set by the caller.  harness keeps the combined power and the dt   *)
(* of every call.                                                          *)

MaxEnergyUpdates == 3

BatteryCapacities == {Zero, I(5), I(6)}
LogIntervals == {Zero, One}
EnergyDts == {Half, One}
MotorPowers == {I(-4), Zero, I(3)}
EdtPowers == {Zero, I(3)}
GravityFields == {NoGravity,
                  NewGravity(I(16), I(2), I(1), S_local),
                  NewGravity(I(16), I(2), I(1), S_orbital)}

\* a one-segment tether hanging below an anchor at (0, -2), stretched and moving
HangingTether ==
    LET t == NewTether(1, I(2), I(4), One, Zero, Zero)
    IN  [t EXCEPT !.positions = [j \in 0..1 |-> <<Zero, I(-2 - 3 * j)>>],
                  !.pos_prev = [j \in 0..1 |-> <<Zero, I(-2 - 3 * j)>>],
                  !.velocities = [j \in 0..1 |-> <<Zero, I(j)>>]]

\* the four objects update receives
Observed(t, m, e, g) == [tether |-> t, motor |-> m, edt |-> e, gravity |-> g]

InitEnergy ==
    /\ tether = HangingTether
    /\ motor = NewMotor(<<1, 4>>, Half, I(15), Zero, Half)
    /\ edt = NewEDT(I(100), <<Zero, Zero, One>>, One, One, S_drag)
    /\ gravity \in GravityFields
    /\ \E cap \in BatteryCapacities, li \in LogIntervals :
          energy = NewEnergy(cap, li)
    /\ harness = [n |-> 0, last |-> "new", powers |-> <<>>, dts |-> <<>>,
                  given |-> Observed(tether, motor, edt, gravity),
                  before |-> energy]
    /\ integ = Idle /\ run = Idle /\ load = Idle

EnergyUpdate ==
    /\ harness.n < MaxEnergyUpdates
    /\ \E dt \in EnergyDts, pm \in MotorPowers, pe \in EdtPowers :
          /\ motor' = [motor EXCEPT !.P_elec = pm]
          /\ edt' = [edt EXCEPT !.P_net = pe]
          /\ energy' = energy_update(energy, dt, tether, motor', edt', gravity)
          /\ harness' = [harness EXCEPT !.n = @ + 1, !.last = "update",
                                        !.powers = Append(@, RAdd(pm, pe)),
                                        !.dts = Append(@, dt),
                                        !.given = Observed(tether, motor', edt',
                                                           gravity),
                                        !.before = energy]
    /\ UNCHANGED <<tether, gravity, integ, run, load>>

NextEnergy == EnergyUpdate

SpecEnergy == InitEnergy /\ [][NextEnergy]_vars

InUnit(x) == RLe(Zero, x) /\ RLe(x, One)

\* C4: with capacity > 0, after any sequence of updates the stored battery
\* energy is in [0, capacity], and every recorded state of charge is in
\* [0, 1] and equals the recorded battery energy divided by the capacity.
C4_BatteryBounds ==
    RLt(Zero, energy.E_batt_capacity) =>
        /\ RLe(Zero, energy.E_batt_now)
        /\ RLe(energy.E_batt_now, energy.E_batt_capacity)
        /\ Len(energy.SoC) = Len(energy.E_batt)
        /\ \A i \in 1..Len(energy.SoC) :
              /\ InUnit(energy.SoC[i])
              /\ RMul(energy.SoC[i], energy.E_batt_capacity) = energy.E_batt[i]

\* the battery was driven to both ends of its range
C4_Witness ==
    /\ RLt(Zero, energy.E_batt_capacity)
    /\ \E i, j \in 1..Len(energy.SoC) :
          /\ i < j
          /\ energy.SoC[i] = Zero
          /\ energy.SoC[j] = One
          /\ RLt(energy.E_batt_capacity,
                 RMul(harness.powers[i], harness.dts[i]))

ConstantPower ==
    /\ harness.n >= 1
    /\ \A i \in 1..harness.n : harness.powers[i] = harness.powers[1]

\* the energy drawn by the first i updates
CumulativeDraw(i) ==
    RSum([j \in 1..i |-> RMul(harness.powers[j], harness.dts[j])], 1, i)

\* C5: under a constant positive combined power the recorded state of charge
\* is non-increasing, never negative, and exactly 0 on every sample from the
\* point where the cumulative draw reaches the capacity; under a constant
\* negative combined power it is non-decreasing and never exceeds 1.
C5_BatteryMonotone ==
    /\ (ConstantPower /\ RLt(Zero, harness.powers[1])) =>
          \A i \in 1..Len(energy.SoC) :
              /\ RLe(Zero, energy.SoC[i])
              /\ i > 1 => RLe(energy.SoC[i], energy.SoC[i - 1])
              /\ RLe(energy.E_batt_capacity, CumulativeDraw(i))
                    => energy.SoC[i] = Zero
    /\ (ConstantPower /\ RLt(harness.powers[1], Zero)) =>
          \A i \in 1..Len(energy.SoC) :
              /\ RLe(energy.SoC[i], One)
              /\ i > 1 => RLe(energy.SoC[i - 1], energy.SoC[i])

\* a constant draw that empties the battery part-way through the ledger
C5_Witness ==
    /\ ConstantPower
    /\ RLt(Zero, harness.powers[1])
    /\ Len(energy.SoC) >= 3
    /\ RLt(Zero, energy.SoC[1]) /\ RLt(energy.SoC[1], One)
    /\ energy.SoC[Len(energy.SoC)] = Zero

---------------------------------------------------------------------------
(* GLIDEIntegrator (core/integrator.py).  The integrator and the five      *)
(* objects it owns are handled as one record sys; the variables tether,    *)
(* motor, edt, gravity, energy and integ hold its fields.                  *)

\* GLIDEIntegrator.__init__ on a configuration snapshot: the integrator, or
\* ValueError when the EDT rejects the field vector.  cfg.EA stands for
\* E * pi * (d/2)^2.
NewIntegrator(cfg) ==
    IF NormalizeBVec(cfg.B_vec) = ValueError THEN ValueError
    ELSE [tether  |-> NewTether(cfg.N, cfg.L0, cfg.EA, cfg.rho_l,
                                cfg.tether_damping_ratio,
                                cfg.numerical_vel_decay_per_s),
          motor   |-> NewMotor(cfg.R_spool, cfg.J_m, cfg.tau_max, cfg.b_m,
                               cfg.eta),
          edt     |-> NewEDT(cfg.EDT_L, cfg.B_vec, cfg.EDT_R, cfg.EDT_Imax,
                             cfg.EDT_mode),
          gravity |-> NewGravity(cfg.mu, cfg.local_g, cfg.R_earth,
                                 cfg.gravity_mode),
          energy  |-> NewEnergy(cfg.battery_capacity_J, cfg.log_interval),
          integ   |-> [dt |-> cfg.dt, anchor_pos |-> ZeroV,
                       anchor_vel |-> ZeroV,
                       constraint_iterations |-> cfg.constraint_iterations,
                       max_substep_dt |-> cfg.tether_max_substep_dt,
                       velocity_limit |-> cfg.velocity_limit,
                       step_count |-> 0]]

\* F_ext of _build_external_forces: gravity on every non-anchor node, the
\* EDT force on the payload
BuildExternalForces(sys, F_edt) ==
    [i \in 0..sys.tether.N |->
        VAdd(IF i = 0 THEN ZeroV
             ELSE VScale(sys.tether.m_segment,
                         get_acceleration(sys.gravity, sys.tether.positions[i])),
             IF i = sys.tether.N THEN F_edt ELSE ZeroV)]

\* The float values no fraction reaches.  A zero denominator marks them:
\* 0/0 is NaN, 1/0 and -1/0 are the infinities.  FloatMax and FloatMin stand
\* for +-np.finfo(float).max, the finite values nan_to_num puts in place of
\* the infinities.
NaN == <<0, 0>>
PosInf == <<1, 0>>
NegInf == <<-1, 0>>
FloatMax == <<1, -1>>
FloatMin == <<-1, -1>>

IsNaN(x) == x = NaN
IsInf(x) == x = PosInf \/ x = NegInf
IsFinite(x) == x[2] # 0

\* np.nan_to_num on one component
nan_to_num(x) ==
    IF IsNaN(x) THEN Zero
    ELSE IF x = PosInf THEN FloatMax
    ELSE IF x = NegInf THEN FloatMin
    ELSE x

\* np.isnan(a).any() over an array of vectors
AnyNaN(a, N) == \E j \in 0..N : IsNaN(a[j][1]) \/ IsNaN(a[j][2])

\* step, lines 132-134: when a NaN is present, both arrays go through
\* nan_to_num
Sanitize(t) ==
    IF AnyNaN(t.positions, t.N) \/ AnyNaN(t.velocities, t.N)
    THEN [t EXCEPT !.positions = [j \in 0..t.N |->
                        <<nan_to_num(t.positions[j][1]),
                          nan_to_num(t.positions[j][2])>>],
                   !.velocities = [j \in 0..t.N |->
                        <<nan_to_num(t.velocities[j][1]),
                          nan_to_num(t.velocities[j][2])>>]]
    ELSE t

\* each component clipped to the limit on its own
LimitRow_Componentwise(v, limit) ==
    IF IsFinite(v[1]) /\ IsFinite(v[2])
    THEN <<RClip(v[1], RNeg(limit), limit), RClip(v[2], RNeg(limit), limit)>>
    ELSE v

\* one row of the velocity ceiling.  A row holding NaN has a NaN norm, which
\* is not above the limit; a row holding an infinity has an infinite norm
\* and is multiplied by limit/inf = 0, which turns the infinity into NaN.
LimitRow(v, limit) ==
    IF IsNaN(v[1]) \/ IsNaN(v[2]) THEN v
    ELSE IF IsInf(v[1]) \/ IsInf(v[2])
    THEN <<IF IsInf(v[1]) THEN NaN ELSE Zero,
           IF IsInf(v[2]) THEN NaN ELSE Zero>>
    ELSE IF RLt(limit, Norm(v)) THEN VScale(RDiv(limit, Norm(v)), v)
    ELSE v

\* the velocity safety ceiling: rows faster than the limit are scaled to it
LimitVelocities(t, limit) ==
    IF RLt(Zero, limit)
    THEN [t EXCEPT !.velocities = [j \in 0..t.N |-> LimitRow(t.velocities[j], limit)]]
    ELSE t

\* step, lines 126-134: the end of a sub-step
SubStepTail(t, limit) == Sanitize(LimitVelocities(t, limit))

\* the number of tether sub-steps of one control step
\* the quotient rounded down instead of up
SubstepCount_Floor(dt, max_substep_dt) ==
    LET dt_sub == IF RLt(Zero, max_substep_dt) THEN RMin(dt, max_substep_dt)
                  ELSE dt
        n == RFloor(RDiv(dt, dt_sub))
    IN  IF n < 1 THEN 1 ELSE n

SubstepCount(dt, max_substep_dt) ==
    LET dt_sub == IF RLt(Zero, max_substep_dt) THEN RMin(dt, max_substep_dt)
                  ELSE dt
        n == RCeil(RDiv(dt, dt_sub))
    IN  IF n < 1 THEN 1 ELSE n

\* sub-step, lines 116-119: the anchor moves, internal forces are recomputed
MoveAnchor(sys, anchor_pos) ==
    [sys EXCEPT !.integ.anchor_pos = anchor_pos,
                !.tether = compute_internal_forces(
                              anchor_update(sys.tether, anchor_pos,
                                            sys.integ.anchor_vel))]

\* the anchor advanced by the whole control step in every sub-step
SubStepAnchor_ControlDt(sys, dt_sub) ==
    MoveAnchor(sys, VAdd(sys.integ.anchor_pos,
                         VScale(sys.integ.dt, sys.integ.anchor_vel)))

SubStepAnchor(sys, dt_sub) ==
    MoveAnchor(sys, VAdd(sys.integ.anchor_pos,
                         VScale(dt_sub, sys.integ.anchor_vel)))

\* sub-step, lines 120-121: the EDT is updated and the external forces added
WithEdt(sys, e) ==
    [sys EXCEPT !.edt = e,
                !.tether = add_external_forces(sys.tether,
                                               BuildExternalForces(sys, e.F))]

SubStepForces(sys, current_cmd) ==
    WithEdt(sys, edt_update(sys.edt, sys.integ.anchor_pos,
                            get_payload_state(sys.tether)[1],
                            get_payload_state(sys.tether)[2], current_cmd))

\* sub-step, lines 123-134.  Exact arithmetic produces no NaN, so here the
\* sanitising stage finds nothing to do.
SubStepMove(sys, dt_sub) ==
    [sys EXCEPT !.tether =
        SubStepTail(
            enforce_constraints(integrate(sys.tether, dt_sub), dt_sub,
                                sys.integ.constraint_iterations),
            sys.integ.velocity_limit)]

\* one pass of the sub-step loop
SubStep(sys, dt_sub, current_cmd) ==
    SubStepMove(SubStepForces(SubStepAnchor(sys, dt_sub), current_cmd), dt_sub)

RECURSIVE SubSteps(_, _, _, _)
SubSteps(sys, dt_sub, current_cmd, n) ==
    IF n = 0 THEN sys
    ELSE SubSteps(SubStep(sys, dt_sub, current_cmd), dt_sub, current_cmd, n - 1)

\* step, lines 98-101
StepForces(sys) ==
    [sys EXCEPT !.tether = compute_internal_forces(
                              anchor_update(sys.tether, sys.integ.anchor_pos,
                                            sys.integ.anchor_vel))]

TipTension(t) == IF t.N > 0 THEN get_tension_profile(t)[t.N - 1] ELSE Zero

WithMotor(sys, m) ==
    [sys EXCEPT !.motor = m, !.integ.anchor_vel = <<Zero, motor_v_anchor(m)>>]

\* the motor updated once per sub-step instead of once per step
StepMotor_Twice(sys, omega_cmd) ==
    WithMotor(sys, motor_update(
                      motor_update(sys.motor, sys.integ.dt,
                                   TipTension(sys.tether), omega_cmd),
                      sys.integ.dt, TipTension(sys.tether), omega_cmd))

\* step, lines 104-107
StepMotor(sys, omega_cmd) ==
    WithMotor(sys, motor_update(sys.motor, sys.integ.dt,
                                TipTension(sys.tether), omega_cmd))

SubStepLoop(sys, current_cmd, n_sub) ==
    SubSteps(sys, RDiv(sys.integ.dt, I(n_sub)), current_cmd, n_sub)

\* step, lines 110-134
StepSubsteps(sys, current_cmd) ==
    SubStepLoop(sys, current_cmd,
                SubstepCount(sys.integ.dt, sys.integ.max_substep_dt))

\* the ledger updated with the sub-step size instead of the control step
StepEnergy_SubstepDt(sys) ==
    [sys EXCEPT !.energy = energy_update(
                              sys.energy,
                              RDiv(sys.integ.dt,
                                   I(SubstepCount(sys.integ.dt,
                                                  sys.integ.max_substep_dt))),
                              sys.tether, sys.motor, sys.edt, sys.gravity),
                !.integ.step_count = @ + 1]

\* step, lines 137-138
StepEnergy(sys) ==
    [sys EXCEPT !.energy = energy_update(sys.energy, sys.integ.dt, sys.tether,
                                         sys.motor, sys.edt, sys.gravity),
                !.integ.step_count = @ + 1]

\* GLIDEIntegrator.step
step(sys, omega_cmd, current_cmd) ==
    StepEnergy(StepSubsteps(StepMotor(StepForces(sys), omega_cmd), current_cmd))

\* int(x): truncation toward zero
Trunc(a) == IF a[1] < 0 THEN -((-a[1]) \div a[2]) ELSE a[1] \div a[2]

\* the number of control steps run executes, counted upward instead
RunSteps_RoundedUp(duration, dt) == RCeil(RDiv(duration, dt))

\* steps = int(float(duration) / self.dt)
RunSteps(duration, dt) == Trunc(RDiv(duration, dt))

---------------------------------------------------------------------------
(* The integrator driven through step and run.  Everything lies on the     *)
(* vertical axis (the field vector has no out-of-plane part when the EDT   *)
(* is on), so every length is an exact rational.  harness keeps what a     *)
(* test observes from outside: the mechanical energy at construction,      *)
(* whether the set-up and the commands so far are conservative, the        *)
(* arguments of every step call and every profile evaluation since the     *)
(* last run began.                                                         *)

MaxSteps == 3

IntegratorSizes == {1, 2}
InitialStretch == {One, <<6, 5>>}
\* gravity strength with the tether damping ratio
Dissipation == {<<Zero, Zero>>, <<I(2), <<1, 4>>>>}
ControlDts == {Half, One}
MaxSubstepDts == {Zero, Half}
VelocityLimits == {Zero, I(3)}
EdtSetups == {<<S_off, <<Zero, Zero, One>>>>, <<S_boost, <<One, Zero>>>>}
\* omega_cmd, current_cmd of a step call
StepCommands == {<<Zero, Zero>>, <<I(2), One>>}
Durations == {<<-1, 2>>, Zero, <<1, 4>>, One, <<3, 2>>, <<5, 2>>, I(3)}

NoProfile == "None"
\* omega_profile, current_profile of a run call
ProfilePairs == {<<NoProfile, NoProfile>>, <<"ramp", NoProfile>>,
                 <<NoProfile, "square">>, <<"ramp", "square">>}

\* the command profiles: a ramp 2t - 1 and a square wave of period 2
EvalProfile(profile, t) ==
    IF profile = "ramp" THEN RSub(RMul(I(2), t), One)
    ELSE IF RFloor(t) % 2 = 0 THEN <<4, 5>> ELSE <<-4, 5>>

BaseConfig ==
    [dt |-> One, gravity_mode |-> S_local, local_g |-> Zero, mu |-> I(16),
     R_earth |-> One, N |-> 1, L0 |-> I(2), EA |-> I(2), rho_l |-> Half,
     tether_damping_ratio |-> Zero, numerical_vel_decay_per_s |-> Zero,
     R_spool |-> One, J_m |-> One, tau_max |-> I(4), b_m |-> Zero,
     eta |-> Half, EDT_L |-> I(100), B_vec |-> <<Zero, Zero, One>>,
     EDT_R |-> One, EDT_Imax |-> One, EDT_mode |-> S_off,
     battery_capacity_J |-> I(6), log_interval |-> One,
     constraint_iterations |-> 2, tether_max_substep_dt |-> Zero,
     velocity_limit |-> Zero]

Sys == [tether |-> tether, motor |-> motor, edt |-> edt, gravity |-> gravity,
        energy |-> energy, integ |-> integ]

SetSys(s) ==
    /\ tether' = s.tether /\ motor' = s.motor /\ edt' = s.edt
    /\ gravity' = s.gravity /\ energy' = s.energy /\ integ' = s.integ

\* the tether hanging straight down with every segment stretched by f
StretchedDown(t, f) ==
    ReleasedTether(t, <<Zero, I(-1)>>, [i \in 0..(t.N - 1) |-> f])

InitIntegrator ==
    /\ \E N \in IntegratorSizes, f \in InitialStretch, gz \in Dissipation,
          dt \in ControlDts, ms \in MaxSubstepDts,
          vl \in VelocityLimits, es \in EdtSetups :
         LET g == gz[1]
             zeta == gz[2]
             s == NewIntegrator(
                    [BaseConfig EXCEPT !.N = N, !.L0 = I(2 * N),
                        !.local_g = g, !.tether_damping_ratio = zeta,
                        !.dt = dt, !.tether_max_substep_dt = ms,
                        !.velocity_limit = vl, !.EDT_mode = es[1],
                        !.B_vec = es[2]])
             t == StretchedDown(s.tether, f)
         IN  /\ tether = t
             /\ motor = s.motor /\ edt = s.edt /\ gravity = s.gravity
             /\ energy = s.energy /\ integ = s.integ
             /\ harness = [n |-> 0, last |-> "new",
                           E0 |-> total_energy_mech(t),
                           conservative |->
                               /\ g = Zero /\ zeta = Zero /\ es[1] = S_off
                               /\ total_energy_mech(t) # Zero,
                           calls |-> <<>>, evals |-> <<>>,
                           drawn |-> Zero, unclamped |-> TRUE,
                           direct |-> FALSE]
    /\ run = [pc |-> Idle, duration |-> Zero, omega_profile |-> NoProfile,
              current_profile |-> NoProfile, steps |-> 0, i |-> 0,
              result |-> EmptySummary]
    /\ load = Idle

\* the state is followed while its numbers stay small
Tractable == Representable(tether) /\ SmallMotor(motor)

\* the energy a step that left these powers takes from the battery
StepDraw(m, e) == RMul(RAdd(m.P_elec, e.P_net), integ.dt)

\* the battery energy less the draw is within [0, capacity]: the clip of
\* energy.py line 66 has nothing to do
WithinBattery(m, e) ==
    /\ RLe(Zero, RSub(energy.E_batt_now, StepDraw(m, e)))
    /\ RLe(RSub(energy.E_batt_now, StepDraw(m, e)), energy.E_batt_capacity)

\* the harness after a step call with these arguments that left motor m
\* and EDT e: drawn adds up the draws, unclamped tells that the clip never
\* acted
Stepped(omega_cmd, current_cmd, m, e) ==
    [harness EXCEPT !.n = @ + 1, !.last = "step",
                    !.conservative = @ /\ omega_cmd = Zero,
                    !.calls = Append(@, <<omega_cmd, current_cmd>>),
                    !.drawn = RAdd(@, StepDraw(m, e)),
                    !.unclamped = @ /\ WithinBattery(m, e)]

\* an external caller invokes step; harness.direct remembers that a step
\* was made outside run
Step ==
    /\ run.pc = Idle
    /\ harness.n < MaxSteps
    /\ Tractable
    /\ \E cmd \in StepCommands :
          /\ SetSys(step(Sys, cmd[1], cmd[2]))
          /\ harness' = [Stepped(cmd[1], cmd[2], motor', edt')
                            EXCEPT !.direct = TRUE]
    /\ UNCHANGED <<run, load>>

\* the latest sample of the ledger has small mechanical energies
SmallLedger(en) ==
    IF en.time = <<>> THEN TRUE
    ELSE \A e \in {en.E_kin[Len(en.E_kin)], en.E_elastic[Len(en.E_elastic)]} :
            IAbs(e[1]) <= 16 * MaxMagnitude /\ e[2] <= 16 * MaxMagnitude

\* run is entered, on a new integrator, after direct step calls or after an
\* earlier run has returned: the step count is fixed. A further run is
\* followed while the ledger's numbers stay small
RunBegin ==
    /\ run.pc \in {Idle, "returned"}
    /\ run.pc = "returned" => SmallLedger(energy)
    /\ \E duration \in Durations, pp \in ProfilePairs :
          /\ harness.n + RunSteps(duration, integ.dt) <= MaxSteps
          /\ run' = [pc |-> "loop", duration |-> duration,
                     omega_profile |-> pp[1], current_profile |-> pp[2],
                     steps |-> RunSteps(duration, integ.dt), i |-> 0,
                     result |-> EmptySummary]
    /\ harness' = [harness EXCEPT !.last = "run", !.calls = <<>>,
                                  !.evals = <<>>]
    /\ UNCHANGED <<tether, motor, edt, gravity, energy, integ, load>>

\* one iteration of run's loop: both profiles are evaluated, then step runs
RunIterate ==
    /\ run.pc = "loop"
    /\ run.i < run.steps
    /\ Tractable
    /\ LET t == RMul(I(run.i), integ.dt)
           omega_cmd == IF run.omega_profile # NoProfile
                        THEN EvalProfile(run.omega_profile, t) ELSE Zero
           current_cmd == IF run.current_profile # NoProfile
                          THEN EvalProfile(run.current_profile, t) ELSE Zero
           seen == (IF run.omega_profile # NoProfile
                    THEN <<<<"omega", t>>>> ELSE <<>>)
                   \o (IF run.current_profile # NoProfile
                       THEN <<<<"current", t>>>> ELSE <<>>)
       IN  /\ SetSys(step(Sys, omega_cmd, current_cmd))
           /\ harness' = [Stepped(omega_cmd, current_cmd, motor', edt')
                            EXCEPT !.evals = @ \o seen]
    /\ run' = [run EXCEPT !.i = @ + 1]
    /\ UNCHANGED load

\* run's loop is over: the summary is returned
RunReturn ==
    /\ run.pc = "loop"
    /\ run.i >= run.steps
    /\ run' = [run EXCEPT !.pc = "returned", !.result = summary(energy)]
    /\ harness' = [harness EXCEPT !.last = "return"]
    /\ UNCHANGED <<tether, motor, edt, gravity, energy, integ, load>>

NextIntegrator == Step \/ RunBegin \/ RunIterate \/ RunReturn

SpecIntegrator == InitIntegrator /\ [][NextIntegrator]_vars

\* C2: in the conservative case (gravity strength zero, EDT off, every
\* winch command zero, damping ratio 0, velocity decay 0, nonzero initial
\* mechanical energy) total_energy_mech() after every step is within 1e-3
\* relative of its value before the first step.
C2_EnergyConserved ==
    (harness.conservative /\ integ.step_count >= 1) =>
        RLe(RAbs(RSub(total_energy_mech(tether), harness.E0)),
            RDiv(harness.E0, I(1000)))

\* the value run must pass to step for a profile at time t
ExpectedCommand(profile, t) ==
    IF profile = NoProfile THEN Zero ELSE EvalProfile(profile, t)

\* the profile evaluations of iteration i, in order
ExpectedEvals(i) ==
    (IF run.omega_profile # NoProfile
     THEN <<<<"omega", RMul(I(i), integ.dt)>>>> ELSE <<>>)
    \o (IF run.current_profile # NoProfile
        THEN <<<<"current", RMul(I(i), integ.dt)>>>> ELSE <<>>)

RECURSIVE ExpectedEvalsUpTo(_)
ExpectedEvalsUpTo(n) ==
    IF n = 0 THEN <<>> ELSE ExpectedEvalsUpTo(n - 1) \o ExpectedEvals(n - 1)

\* C8: for a duration >= 0, run calls step exactly floor(duration / dt)
\* times; before the i-th step (i = 0, 1, ...) each supplied profile is
\* evaluated exactly once, at time i*dt, and the two values are the
\* arguments of that step; a missing profile counts as the constant 0.
C8_RunStepsAndProfiles ==
    (run.pc # Idle /\ RLe(Zero, run.duration)) =>
        /\ Len(harness.calls) = run.i
        /\ \A k \in 1..Len(harness.calls) :
              harness.calls[k] =
                 <<ExpectedCommand(run.omega_profile, RMul(I(k - 1), integ.dt)),
                   ExpectedCommand(run.current_profile, RMul(I(k - 1), integ.dt))>>
        /\ harness.evals = ExpectedEvalsUpTo(run.i)
        /\ run.pc = "returned" =>
              Len(harness.calls) = RFloor(RDiv(run.duration, integ.dt))

\* a run over a duration that is not a multiple of dt, with both profiles
C8_Witness ==
    /\ run.pc = "returned"
    /\ Len(harness.calls) >= 2
    /\ RMul(I(Len(harness.calls)), integ.dt) # run.duration
    /\ run.omega_profile # NoProfile /\ run.current_profile # NoProfile
    /\ harness.calls[1] # harness.calls[2]

SummaryFields == {"E_kin", "E_elastic", "E_grav", "E_batt", "E_total", "SoC"}

\* the result of run is the six fields of the last ledger sample
ResultIsLastSample ==
    /\ DOMAIN run.result = SummaryFields
    /\ run.result.E_kin = energy.E_kin[Len(energy.E_kin)]
    /\ run.result.E_elastic = energy.E_elastic[Len(energy.E_elastic)]
    /\ run.result.E_grav = energy.E_grav[Len(energy.E_grav)]
    /\ run.result.E_batt = energy.E_batt[Len(energy.E_batt)]
    /\ run.result.E_total = energy.E_total[Len(energy.E_total)]
    /\ run.result.SoC = energy.SoC[Len(energy.SoC)]

\* C9 as claimed: for every duration >= 0, also one shorter than a control
\* step, the value run returns has the six fields kinetic, elastic,
\* gravitational, battery and total energy and state of charge, each equal
\* to the entry of the last ledger sample.
C9_SummaryAsClaimed ==
    (run.pc = "returned" /\ RLe(Zero, run.duration)) => ResultIsLastSample

\* C9 (amended): for every duration >= 0 the value run returns has the six
\* fields, each equal to the entry of the last ledger sample, whenever the
\* ledger holds at least one sample; with an empty ledger (no step executed
\* in this run or before it) run returns an empty mapping.
C9_SummaryOfLastSample ==
    (run.pc = "returned" /\ RLe(Zero, run.duration)) =>
        IF energy.time # <<>> THEN ResultIsLastSample
        ELSE DOMAIN run.result = {}

\* a run of at least two steps whose last sample differs from its first
C9_Witness ==
    /\ run.pc = "returned"
    /\ run.steps >= 2
    /\ run.result.SoC = energy.SoC[Len(energy.SoC)]
    /\ energy.SoC[1] # energy.SoC[Len(energy.SoC)]
    /\ energy.E_kin[1] # energy.E_kin[Len(energy.E_kin)]

---------------------------------------------------------------------------
(* utils/config.py: load_config                                            *)

S_local_demo == <<"l", "o", "c", "a", "l", "_", "d", "e", "m", "o">>
S_orbital_test == <<"o", "r", "b", "i", "t", "a", "l", "_", "t", "e", "s",
                    "t">>
S_engineering == <<"e", "n", "g", "i", "n", "e", "e", "r", "i", "n", "g">>

\* the dictionary before the preset is applied.  E is held in GPa; mu,
\* R_earth and save_energy_csv, which no preset touches, are left out.
DefaultConfig ==
    [dt |-> <<1, 100>>, N |-> 25, L0 |-> I(200), E |-> I(30),
     d |-> <<1, 200>>, rho_l |-> <<3, 2>>,
     tether_damping_ratio |-> <<1, 20>>,
     tether_max_substep_dt |-> <<1, 200>>, constraint_iterations |-> 3,
     numerical_vel_decay_per_s |-> Zero,
     R_spool |-> <<1, 4>>, J_m |-> <<2, 25>>, tau_max |-> I(15),
     b_m |-> <<1, 50>>, eta |-> <<87, 100>>,
     gravity_mode |-> S_local, local_g |-> <<196133, 20000>>,
     EDT_L |-> I(100), B_vec |-> <<Zero, Zero, <<31, Million>>>>,
     EDT_R |-> I(50), EDT_Imax |-> <<5, 2>>, EDT_mode |-> S_off,
     battery_capacity_J |-> I(500000), log_interval |-> One,
     velocity_limit |-> Zero]

\* load_config accepting any name as the engineering preset
KnownPreset_Any(mode) == TRUE

KnownPreset(mode) == mode \in {S_orbital_test, S_engineering, S_local_demo}

\* the dictionary of a preset name already lower-cased and stripped
PresetConfig(mode) ==
    IF mode = S_orbital_test
    THEN [DefaultConfig EXCEPT !.gravity_mode = S_local,
            !.local_g = <<87, 10>>, !.L0 = I(300), !.N = 40, !.E = I(40),
            !.rho_l = <<9, 5>>, !.dt = <<1, 20>>,
            !.tether_max_substep_dt = <<1, 200>>,
            !.constraint_iterations = 4, !.EDT_mode = S_drag,
            !.battery_capacity_J = I(Million)]
    ELSE IF mode = S_local_demo
    THEN [DefaultConfig EXCEPT !.L0 = I(100), !.N = 15,
            !.gravity_mode = S_local, !.local_g = <<196133, 20000>>,
            !.EDT_mode = S_off, !.dt = <<1, 200>>,
            !.tether_max_substep_dt = <<1, 200>>,
            !.constraint_iterations = 2]
    ELSE [DefaultConfig EXCEPT !.L0 = I(250), !.N = 25, !.E = I(5),
            !.rho_l = <<8, 5>>, !.EDT_mode = S_boost,
            !.EDT_Imax = Half, !.tau_max = I(8),
            !.battery_capacity_J = I(2 * Million), !.dt = <<1, 200>>,
            !.tether_max_substep_dt = <<1, 200>>,
            !.constraint_iterations = 3]

\* load_config: the dictionary, or ValueError
load_config(mode) ==
    IF KnownPreset(NormalizeName(mode)) THEN PresetConfig(NormalizeName(mode))
    ELSE ValueError

---------------------------------------------------------------------------
(* A preset is loaded, the caller sets the field vector, and the           *)
(* integrator is constructed from the snapshot; the EDT is then updated.   *)
(* The tether, motor and battery are the small ones of BaseConfig, the     *)
(* EDT parameters are the preset's.  harness keeps the field vector the    *)
(* caller supplied and the arguments of the last EDT update.               *)

PresetNames ==
    {<<"l", "o", "c", "a", "l", "_", "d", "e", "m", "o">>,
     <<"o", "r", "b", "i", "t", "a", "l", "_", "t", "e", "s", "t">>,
     <<"e", "n", "g", "i", "n", "e", "e", "r", "i", "n", "g">>,
     <<" ", "E", "n", "g", "i", "n", "e", "e", "r", "i", "n", "g", "\n">>,
     <<"L", "O", "C", "A", "L", "_", "D", "E", "M", "O">>,
     <<"O", "r", "b", "i", "t", "a", "l", "_", "T", "e", "s", "t", " ">>,
     <<"o", "r", "b", "i", "t", "a", "l">>,
     <<"l", "o", "c", "a", "l", " ", "d", "e", "m", "o">>, <<>>,
     <<"e", "n", "g", "i", "n", "e", "e", "r", "i", "n", "g", "2">>,
     <<"o", "f", "f">>}

FieldVectors == {<<>>, <<I(5)>>, <<I(7), I(-2)>>, <<Zero, Zero, <<31, Million>>>>,
                 <<One, One, Zero>>, <<I(3), Zero, I(2)>>,
                 <<Zero, Zero, Zero, One>>}
ConfigVelocities == {<<One, Zero>>, <<I(-2), One>>}
ConfigCommands == {<<-4, 5>>, One}

InitConfig ==
    /\ load = [name |-> <<>>, result |-> ValueError]
    /\ harness = [last |-> "new", B_vec |-> <<>>, velocity |-> ZeroV,
                  current_cmd |-> Zero]
    /\ tether = Idle /\ motor = Idle /\ edt = Idle /\ gravity = Idle
    /\ energy = Idle /\ integ = Idle /\ run = Idle

LoadConfig ==
    /\ harness.last = "new"
    /\ \E name \in PresetNames :
          load' = [name |-> name, result |-> load_config(name)]
    /\ harness' = [harness EXCEPT !.last = "load"]
    /\ UNCHANGED <<tether, motor, edt, gravity, energy, integ, run>>

\* GLIDEIntegrator(cfg) with the loaded EDT settings and the caller's B_vec;
\* when the constructor raises, no object exists
Construct ==
    /\ harness.last = "load"
    /\ load.result # ValueError
    /\ \E B \in FieldVectors :
          LET s == NewIntegrator(
                     [BaseConfig EXCEPT !.B_vec = B,
                         !.EDT_L = load.result.EDT_L,
                         !.EDT_R = load.result.EDT_R,
                         !.EDT_Imax = load.result.EDT_Imax,
                         !.EDT_mode = load.result.EDT_mode])
          IN  /\ IF s = ValueError
                 THEN /\ tether' = ValueError /\ motor' = ValueError
                      /\ edt' = ValueError /\ gravity' = ValueError
                      /\ energy' = ValueError /\ integ' = ValueError
                 ELSE SetSys(s)
              /\ harness' = [harness EXCEPT !.last = "construct", !.B_vec = B]
    /\ UNCHANGED <<run, load>>

\* the EDT update of _build_external_forces on the constructed integrator
ConfigEdtUpdate ==
    /\ harness.last \in {"construct", "update"}
    /\ integ # ValueError
    /\ \E v \in ConfigVelocities, cmd \in ConfigCommands :
          /\ edt' = edt_update(edt, integ.anchor_pos,
                               get_payload_state(tether)[1], v, cmd)
          /\ harness' = [harness EXCEPT !.last = "update", !.velocity = v,
                                        !.current_cmd = cmd]
    /\ UNCHANGED <<tether, motor, gravity, energy, integ, run, load>>

NextConfig == LoadConfig \/ Construct \/ ConfigEdtUpdate

SpecConfig == InitConfig /\ [][NextConfig]_vars

Constructed == harness.last \in {"construct", "update"}

\* C10: load_config with a name that, lower-cased and stripped, is not
\* local_demo, orbital_test or engineering ends in ValueError and returns no
\* configuration; constructing the EDT, hence the integrator, with a field
\* vector of length other than 2 or 3 ends in ValueError; lengths 2 and 3
\* are accepted and only the last component acts, as the out-of-plane field.
C10_MalformedConfigIsError ==
    /\ harness.last # "new" =>
          (load.result = ValueError
              <=> NormalizeName(load.name)
                     \notin {S_local_demo, S_orbital_test, S_engineering})
    /\ Constructed =>
          /\ edt = ValueError <=> Len(harness.B_vec) \notin {2, 3}
          /\ integ = ValueError <=> Len(harness.B_vec) \notin {2, 3}
    /\ (Constructed /\ Len(harness.B_vec) \in {2, 3}) =>
          /\ edt.B_vec[3] = harness.B_vec[Len(harness.B_vec)]
          /\ harness.last = "update" =>
                Norm(edt.F) =
                   RMul(RMul(RAbs(edt.I),
                             Norm(VSub(get_payload_state(tether)[1],
                                       integ.anchor_pos))),
                        RAbs(harness.B_vec[Len(harness.B_vec)]))

\* a preset named with capitals and blanks was loaded, and the constructor
\* then rejected a field vector of the wrong length
C10_Witness ==
    /\ harness.last = "construct"
    /\ load.name # NormalizeName(load.name)
    /\ load.result # ValueError
    /\ Len(harness.B_vec) = 4
    /\ edt = ValueError

---------------------------------------------------------------------------
(* The end of a sub-step (integrator.py 126-134) on arrays in which the    *)
(* sub-step's float arithmetic left non-finite components: an overflowing  *)
(* product leaves an infinity, inf - inf or inf/inf leaves NaN.            *)
(* harness.left is the tether as integrate and enforce_constraints left    *)
(* it, before the velocity ceiling and the sanitising stage.               *)

FloatComponents == {Zero, I(3), I(-4), NaN, PosInf, NegInf}
PositionRows == {<<Zero, I(-2)>>, <<Zero, NegInf>>, <<NaN, I(-2)>>, <<NaN, PosInf>>}
AnchorSpeeds == {Zero, I(5)}
SanitizeLimits == {Zero, I(2)}

InitSanitize ==
    /\ \E vl \in SanitizeLimits :
          LET s == NewIntegrator([BaseConfig EXCEPT !.velocity_limit = vl])
          IN  /\ tether = s.tether /\ motor = s.motor /\ edt = s.edt
              /\ gravity = s.gravity /\ energy = s.energy /\ integ = s.integ
    /\ harness = [last |-> "new", left |-> tether]
    /\ run = Idle /\ load = Idle

\* the payload row and the anchor velocity left by the sub-step, then lines
\* 126-134
SubStepEnd ==
    /\ \E p \in PositionRows, vx, vy \in FloatComponents, va \in AnchorSpeeds :
          /\ harness' = [last |-> "substep",
                         left |-> [tether EXCEPT
                                      !.positions[1] = p,
                                      !.velocities[0] = <<Zero, va>>,
                                      !.velocities[1] = <<vx, vy>>]]
          /\ tether' = SubStepTail(harness'.left, integ.velocity_limit)
    /\ UNCHANGED <<motor, edt, gravity, energy, integ, run, load>>

NextSanitize == SubStepEnd

SpecSanitize == InitSanitize /\ [][NextSanitize]_vars

\* C11: at the end of every sub-step every position and velocity component
\* is finite, and every component that was non-finite before the end-of-sub-
\* step stage has been reset to zero.
C11_NonFiniteReset ==
    harness.last = "substep" =>
        \A j \in 0..tether.N, c \in 1..2 :
            /\ IsFinite(tether.positions[j][c])
            /\ IsFinite(tether.velocities[j][c])
            /\ ~IsFinite(harness.left.positions[j][c])
                  => tether.positions[j][c] = Zero
            /\ ~IsFinite(harness.left.velocities[j][c])
                  => tether.velocities[j][c] = Zero

---------------------------------------------------------------------------
(* Call structure of step, observed on SpecIntegrator.                     *)

LedgerColumns(en) ==
    <<en.time, en.E_kin, en.E_elastic, en.E_grav, en.E_batt, en.E_total, en.SoC>>

\* the tip tension handed to the motor: read after the anchor boundary
\* condition and the internal forces at the start of step
TensionAtStepStart == TipTension(StepForces(Sys).tether)

\* a step call has just been made with this winch command
StepTaken == harness'.n = harness.n + 1
LastOmegaCmd == harness'.calls[Len(harness'.calls)][1]

\* C12: every step call leaves the motor exactly as one MotorSystem.update
\* with the control step dt and the tension read before the sub-step loop
\* leaves it, and the ledger exactly as one EnergyTracker.update made on the
\* state after the last sub-step leaves it; at all times the ledger holds
\* exactly step_count samples and its seven columns have the same length.
C12_OneMotorOneEnergyUpdate ==
    /\ [](\A c \in 1..7 : Len(LedgerColumns(energy)[c]) = integ.step_count)
    /\ [][StepTaken =>
            /\ motor' = motor_update(motor, integ.dt, TensionAtStepStart,
                                     LastOmegaCmd)
            /\ integ'.anchor_vel = <<Zero, motor_v_anchor(motor')>>
            /\ energy' = energy_update(energy, integ.dt, tether', motor',
                                       edt', gravity')
            /\ integ'.step_count = integ.step_count + 1]_vars

\* several steps, each of several sub-steps, with the motor turning
C12_Witness ==
    /\ harness.last = "step"
    /\ integ.step_count >= 2
    /\ Len(energy.time) = integ.step_count
    /\ SubstepCount(integ.dt, integ.max_substep_dt) >= 2
    /\ motor.omega # Zero
    /\ motor.anchor_length # Zero

---------------------------------------------------------------------------
(* Frame of EnergyTracker.update, observed on SpecEnergy: harness.given    *)
(* holds the four objects as they were handed to the last update and       *)
(* harness.before the tracker as it was when that update was called.       *)

\* column c of the tracker is the earlier column with one more entry
OneRowAppended(before, after) ==
    \A c \in 1..7 :
        /\ Len(LedgerColumns(after)[c]) = Len(LedgerColumns(before)[c]) + 1
        /\ SubSeq(LedgerColumns(after)[c], 1, Len(LedgerColumns(before)[c]))
              = LedgerColumns(before)[c]

---------------------------------------------------------------------------
(* Properties of the DynamicTether operations, observed on SpecTetherApi:  *)
(* harness.prev is the tether as it was when the last call was made.       *)

\* C14: after every DynamicTether call other than anchor_update, node 0 has
\* the position and the velocity it had when the call was made, so that
\* they are always the ones given to the most recent anchor_update; in
\* particular enforce_constraints leaves the anchor where it found it.
C14_AnchorOnlyFromAnchorUpdate ==
    harness.last \notin {"release", "anchor_update"} =>
        /\ tether.positions[0] = harness.prev.positions[0]
        /\ tether.velocities[0] = harness.prev.velocities[0]

\* the velocity node j's displacement since prev implies over dt
DisplacementVelocity(prev, t, j, dt) ==
    VScale(RInv(dt), VSub(t.positions[j], prev.positions[j]))

\* C15: after integrate(dt) followed by enforce_constraints(dt, iterations)
\* with dt > 0 and iterations >= 1, the velocity of every non-anchor node is
\* its corrected position minus its position immediately before integrate,
\* divided by dt, and the kinetic energy is the one of these displacement
\* velocities: the constraint pass adds nothing beyond it.  (The energies
\* are compared while the state's numbers are within MaxMagnitude.)
C15_VelocityFromDisplacement ==
    (harness.last = "substep" /\ harness.iterations >= 1 /\ RLt(Zero, harness.dt))
        => /\ \A j \in 1..tether.N :
                tether.velocities[j]
                    = DisplacementVelocity(harness.prev, tether, j, harness.dt)
           /\ Representable(tether) =>
              KineticEnergy(tether)
                = RMul(RMul(Half, tether.m_segment),
                       RSum([j \in 1..tether.N |->
                                Norm2(DisplacementVelocity(harness.prev, tether,
                                                           j, harness.dt))],
                            1, tether.N))

\* a sub-step in which the constraint pass moved a node away from where
\* integrate had put it and left it with a velocity different from the one
\* integrate had given it
C15_Witness ==
    /\ harness.last = "substep"
    /\ tether.N = 2
    /\ tether.positions
          # integrate(compute_internal_forces(harness.prev), harness.dt).positions
    /\ tether.velocities
          # integrate(compute_internal_forces(harness.prev), harness.dt).velocities
    /\ tether.velocities[2] # ZeroV

---------------------------------------------------------------------------
(* The sub-step schedule of step (integrator.py 110-116): the count and    *)
(* the size are fixed before the loop, then the loop runs n_sub times.     *)
(* harness follows the loop: i iterations done, elapsed time covered.      *)

ScheduleDts == {<<1, 4>>, Half, One, <<3, 2>>, I(2), I(3)}
ScheduleMaxSubstepDts ==
    {I(-1), Zero, <<1, 8>>, <<1, 5>>, <<1, 4>>, <<2, 5>>, Half, <<3, 4>>,
     One, I(2), I(5)}

InitSchedule ==
    /\ \E dt \in ScheduleDts, ms \in ScheduleMaxSubstepDts :
          integ = NewIntegrator([BaseConfig EXCEPT
                                    !.dt = dt,
                                    !.tether_max_substep_dt = ms]).integ
    /\ harness = [last |-> "new", n_sub |-> 0, dt_sub |-> Zero, i |-> 0,
                  elapsed |-> Zero]
    /\ tether = Idle /\ motor = Idle /\ edt = Idle /\ gravity = Idle
    /\ energy = Idle /\ run = Idle /\ load = Idle

\* step, lines 110-113
ScheduleFix ==
    /\ harness.last \in {"new", "end"}
    /\ harness' = [last |-> "fixed",
                   n_sub |-> SubstepCount(integ.dt, integ.max_substep_dt),
                   dt_sub |-> RDiv(integ.dt,
                                   I(SubstepCount(integ.dt, integ.max_substep_dt))),
                   i |-> 0, elapsed |-> Zero]
    /\ UNCHANGED <<tether, motor, edt, gravity, energy, integ, run, load>>

\* one iteration of the loop of line 115, advancing by dt_sub
ScheduleSubstep ==
    /\ harness.last \in {"fixed", "substep"}
    /\ harness.i < harness.n_sub
    /\ harness' = [harness EXCEPT !.last = "substep", !.i = @ + 1,
                                  !.elapsed = RAdd(@, harness.dt_sub)]
    /\ UNCHANGED <<tether, motor, edt, gravity, energy, integ, run, load>>

\* the loop is left; step_count is incremented at line 138
ScheduleEnd ==
    /\ harness.last \in {"fixed", "substep"}
    /\ harness.i >= harness.n_sub
    /\ integ.step_count < MaxSteps
    /\ harness' = [harness EXCEPT !.last = "end"]
    /\ integ' = [integ EXCEPT !.step_count = @ + 1]
    /\ UNCHANGED <<tether, motor, edt, gravity, energy, run, load>>

NextSchedule == ScheduleFix \/ ScheduleSubstep \/ ScheduleEnd

SpecSchedule == InitSchedule /\ [][NextSchedule]_vars

\* C16: for dt > 0 and max sub-step m > 0 the count n is the least integer
\* with n * m >= dt and at least 1, the size dt / n is at most m, and the n
\* sub-steps cover exactly dt; for m <= 0 or m >= dt there is exactly one
\* sub-step of size dt.
C16_SubstepSchedule ==
    harness.last # "new" =>
        /\ harness.n_sub >= 1
        /\ harness.dt_sub = RDiv(integ.dt, I(harness.n_sub))
        /\ RMul(I(harness.n_sub), harness.dt_sub) = integ.dt
        /\ RLt(Zero, integ.max_substep_dt) =>
              /\ RLe(integ.dt, RMul(I(harness.n_sub), integ.max_substep_dt))
              /\ RLt(RMul(I(harness.n_sub - 1), integ.max_substep_dt), integ.dt)
              /\ RLe(harness.dt_sub, integ.max_substep_dt)
        /\ (RLe(integ.max_substep_dt, Zero) \/ RLe(integ.dt, integ.max_substep_dt)) =>
              harness.n_sub = 1 /\ harness.dt_sub = integ.dt
        /\ harness.i <= harness.n_sub
        /\ harness.elapsed = RMul(I(harness.i), harness.dt_sub)
        /\ harness.last = "end" => harness.i = harness.n_sub /\ harness.elapsed = integ.dt

\* a finished loop of several sub-steps whose size is strictly below the
\* maximum, dt not being a multiple of it
C16_Witness ==
    /\ harness.last = "end"
    /\ harness.n_sub >= 3
    /\ RLt(harness.dt_sub, integ.max_substep_dt)
    /\ harness.elapsed = integ.dt

---------------------------------------------------------------------------
(* The velocity ceiling, observed on SpecSanitize for sub-steps that left  *)
(* finite values.                                                          *)

AllFinite(t) ==
    \A j \in 0..t.N, c \in 1..2 :
        IsFinite(t.positions[j][c]) /\ IsFinite(t.velocities[j][c])

\* w is v shortened to magnitude limit, pointing the same way
ClampedTo(w, v, limit) ==
    /\ Norm2(w) = RMul(limit, limit)
    /\ RSub(RMul(w[1], v[2]), RMul(w[2], v[1])) = Zero
    /\ RLt(Zero, Dot(w, v))

---------------------------------------------------------------------------
(* Saturation of the motor, observed on SpecMotor: harness.prev is the     *)
(* motor as it was when the last update was called.                        *)

\* C18: after every MotorSystem.update the stored torque is within
\* [-tau_max, tau_max], the angular velocity within [-50, 50], the angular
\* velocity has changed by at most 100 * dt, the anchor velocity returned is
\* omega * R_spool for the new omega (the reel-out length has advanced by
\* it times dt), and the outcome is a motor state, not an error.
C18_MotorSaturation ==
    harness.last = "update" =>
        /\ motor # ValueError
        /\ RLe(RAbs(motor.torque), motor.tau_max)
        /\ RLe(RAbs(motor.omega), I(50))
        /\ RLe(RAbs(RSub(motor.omega, harness.prev.omega)),
               RMul(I(100), harness.dt))
        /\ motor_v_anchor(motor) = RMul(motor.omega, motor.R_spool)
        /\ motor.anchor_length
              = RAdd(harness.prev.anchor_length,
                     RMul(motor_v_anchor(motor), harness.dt))

\* an update under a tension large enough for all three clips to act: the
\* torque is at its limit and the speed at -50, where the unclipped update
\* would have gone beyond it
C18_Witness ==
    /\ harness.last = "update"
    /\ RAbs(motor.torque) = motor.tau_max
    /\ motor.omega = I(-50)
    /\ harness.prev.omega # Zero
    /\ RLt(motor_update_Unlimited(harness.prev, harness.dt, harness.tension,
                                  harness.omega_cmd).omega, I(-50))

\* What segment i put on node i, read off the buffer alone: node 0 holds
\* only segment 0's share, and node j holds segment j's share minus the
\* share segment j-1 put on node j-1.
RECURSIVE SegmentShare(_, _)
SegmentShare(F, i) == IF i = 0 THEN F[0] ELSE VAdd(F[i], SegmentShare(F, i - 1))

Cross(a, b) == RSub(RMul(a[1], b[2]), RMul(a[2], b[1]))

SegmentVector(t, i) == VSub(t.positions[i + 1], t.positions[i])

\* C19: the buffer compute_internal_forces returns sums to zero over the
\* N+1 nodes; it is made of one force per segment, put on node i and, with
\* the opposite sign, on node i+1, and directed along the segment; a
\* segment shorter than 1e-12 contributes nothing.
C19_EqualAndOpposite ==
    harness.last = "compute_internal_forces" =>
        /\ RSum([j \in 0..tether.N |-> tether.forces[j][1]], 0, tether.N) = Zero
        /\ RSum([j \in 0..tether.N |-> tether.forces[j][2]], 0, tether.N) = Zero
        /\ tether.forces[tether.N]
              = VScale(I(-1), SegmentShare(tether.forces, tether.N - 1))
        /\ \A i \in 0..(tether.N - 1) :
              /\ Cross(SegmentShare(tether.forces, i), SegmentVector(tether, i)) = Zero
              /\ BelowSegFloor(SegLength(tether, i))
                    => SegmentShare(tether.forces, i) = ZeroV

\* a two-segment tether whose anchor was put onto node 1: segment 0 has no
\* length and contributes nothing, the stretched segment 1 acts on nodes 1
\* and 2 with opposite forces
C19_Witness ==
    /\ harness.last = "compute_internal_forces"
    /\ tether.N = 2
    /\ BelowSegFloor(SegLength(tether, 0))
    /\ tether.forces[0] = ZeroV
    /\ tether.forces[2] # ZeroV
    /\ tether.forces[1] = VScale(I(-1), tether.forces[2])

\* segment i's relative velocity along the segment: positive when the
\* endpoints are separating
SeparationRate(t, i) ==
    Dot(VSub(t.velocities[i + 1], t.velocities[i]), SegmentVector(t, i))

\* the payload's distance from the anchor, squared
TipDistance2(t) == Norm2(VSub(t.positions[t.N], t.positions[0]))

\* C20: the force compute_internal_forces puts on node i of a segment
\* stretched beyond its rest length, with no relative velocity along it,
\* points toward node i+1 (and the force on node i+1, its opposite, toward
\* node i); for a compressed segment it points away from node i+1; for a
\* segment at rest length whose endpoints are separating the force on node
\* i+1 opposes the separation.  And a one-segment payload released at rest
\* overstretched, with no external force and no constraint passes, is
\* closer to the anchor after its first integrate.
C20_RestoringAndDissipative ==
    /\ harness.last = "compute_internal_forces" =>
          \A i \in 0..(tether.N - 1) :
              ~BelowSegFloor(SegLength(tether, i)) =>
                  /\ (SeparationRate(tether, i) = Zero
                         /\ RLt(tether.segment_length, SegLength(tether, i)))
                        => RLt(Zero, Dot(SegmentShare(tether.forces, i),
                                         SegmentVector(tether, i)))
                  /\ (SeparationRate(tether, i) = Zero
                         /\ RLt(SegLength(tether, i), tether.segment_length))
                        => RLt(Dot(SegmentShare(tether.forces, i),
                                   SegmentVector(tether, i)), Zero)
                  /\ (SegLength(tether, i) = tether.segment_length
                         /\ RLt(Zero, SeparationRate(tether, i))
                         /\ RLt(Zero, tether.c))
                        => RLt(Zero, Dot(SegmentShare(tether.forces, i),
                                         SegmentVector(tether, i)))
    /\ (/\ harness.last = "integrate" /\ harness.n = 2
        /\ tether.N = 1
        /\ harness.prev.positions = harness.x0
        /\ harness.prev.velocities = [j \in 0..1 |-> ZeroV]
        /\ harness.prev.forces = InternalForces(harness.prev)
        /\ RLt(tether.segment_length, Norm(VSub(harness.x0[1], harness.x0[0])))
        /\ tether.positions # harness.x0)
          => RLt(TipDistance2(tether), TipDistance2(harness.prev))

---------------------------------------------------------------------------
(* The anchor and the winch, observed on SpecIntegrator.                   *)

---------------------------------------------------------------------------
(* The battery against the actuators, observed on SpecIntegrator:          *)
(* harness.drawn is the sum over the steps made of (motor P_elec + EDT     *)
(* P_net, as the step left them) * dt, harness.unclamped tells that no     *)
(* step so far had its battery energy clipped.                             *)

BatteryUsed == RSub(energy.E_batt_capacity, energy.E_batt_now)

\* C22: as long as the battery clamp has never acted, capacity minus the
\* current battery energy is the sum over the steps of (motor P_elec + EDT
\* P_net as left by the step) * dt; with the EDT off it is
\* motor.energy_used.
C22_BatteryMatchesActuators ==
    harness.unclamped =>
        /\ BatteryUsed = harness.drawn
        /\ edt.mode = S_off => BatteryUsed = motor.energy_used

\* two or more steps, of several sub-steps each, that drew energy for both
\* the motor and the EDT without reaching either end of the battery
C22_Witness ==
    /\ harness.unclamped
    /\ integ.step_count >= 2
    /\ SubstepCount(integ.dt, integ.max_substep_dt) >= 2
    /\ edt.mode = S_boost /\ edt.P_net # Zero
    /\ motor.P_elec # Zero
    /\ BatteryUsed # Zero
    /\ BatteryUsed # motor.energy_used

---------------------------------------------------------------------------
(* The numerical velocity decay, observed on SpecSubstep.                  *)

\* the tether the same sub-step leaves when the decay rate is 0
SubStepWithoutDecay ==
    SubStepOf([harness.prev EXCEPT !.vel_decay_per_s = Zero],
              harness.dt, harness.iterations)

\* C23: with a decay rate r > 0 and at least one constraint iteration, the
\* velocity of every non-anchor node at the end of a sub-step is the
\* velocity the same sub-step leaves with r = 0, multiplied by the decay
\* factor exp(-r * dt); with r = 0 no decay is applied.
C23_DecayTakesEffect ==
    (harness.last = "substep" /\ harness.iterations >= 1) =>
        \A j \in 1..tether.N :
            tether.velocities[j]
                = IF RLt(Zero, tether.vel_decay_per_s)
                  THEN VScale(ExpNeg(RMul(tether.vel_decay_per_s, harness.dt)),
                              SubStepWithoutDecay.velocities[j])
                  ELSE SubStepWithoutDecay.velocities[j]

---------------------------------------------------------------------------
(* The ledger's clock against run's clock, observed on SpecIntegrator:     *)
(* run.i - 1 is the index of run's latest iteration, whose profiles were   *)
(* evaluated at (run.i - 1) * dt (integrator.py line 143), and the latest  *)
(* entry of energy.time is the time of the sample that iteration's step    *)
(* appended (energy.py lines 37 and 70).                                   *)

\* the time at which run evaluated the profiles for its latest step
CommandTime == RMul(I(run.i - 1), integ.dt)

\* the time of the sample the latest step appended
SampleTime == energy.time[Len(energy.time)]

\* the ledger's own clock, which the code keeps: sample k is at (k - 1) * dt
LedgerClock ==
    \A k \in 1..Len(energy.time) : energy.time[k] = RMul(I(k - 1), integ.dt)

\* C24: across any sequence of run calls on one integrator (no step made
\* outside run), the ledger times start at 0, advance by exactly dt per
\* sample and are strictly increasing, and the time of the sample appended
\* by a step equals the time at which run evaluated the command profiles
\* for that step.
C24_LedgerTimeIsCommandTime ==
    ~harness.direct =>
        /\ LedgerClock
        /\ \A k \in 1..(Len(energy.time) - 1) :
              RLt(energy.time[k], energy.time[k + 1])
        /\ (run.pc # Idle /\ run.i >= 1) => SampleTime = CommandTime

====
